---- MODULE Spec2Model ----
(***************************************************************************)
(* lspd: a multiplexer between several editor clients and one language     *)
(* server child.  The model follows MuxState (daemon.ts) and               *)
(* DiagnosticsBridge (diagnosticsBridge.ts).  Every method of the source   *)
(* is an operator from a state record to a state record, so that a handler *)
(* and every call it makes form one step; the actions bind the record to   *)
(* the variables, one variable per field of the source.                    *)
(***************************************************************************)
EXTENDS Integers, Sequences, FiniteSets, TLC

VARIABLES
    serverSpec,                     \* this.spec.name
    nextClientId,                   \* this.nextClientId
    clients,                        \* keys of this.clients, in insertion order
    destroyed,                      \* clients whose socket.destroy() was called
    primaryClientId,                \* this.primaryClientId (NoClient is null)
    nextServerRequestId,            \* this.nextServerRequestId
    pendingClientRequests,          \* Map<number, {clientId, originalId}>
    pendingInternalRequests,        \* Map<number, {kind, uri}>
    clientSupportsPullDiagnostics,  \* Map<number, boolean>
    nextForwardedServerReqId,       \* this.nextForwardedServerReqId
    pendingServerRequests,          \* Map<number, {serverId}>
    init,                           \* this.init
    queuedInitialize,               \* this.queuedInitialize
    diagnosticDebounce,             \* bridge: Map<string, timer handle>
    debounceTimers,                 \* pending setTimeouts of schedule: (handle, uri)
    diagnosticsInFlight,            \* bridge: Set<string>
    lastPublishedDiagnostics,       \* bridge: Map<string, unknown[]>
    pendingDiagnosticsAfterInit,    \* bridge: Set<string>
    initDone,                       \* bridge: boolean
    idleTimers,                     \* pending idle setTimeouts: ticks left, oldest first
    emptyTicks,                     \* ticks elapsed since the client set last became empty
    lspKilled,                      \* lsp.kill() was called by shutdown()
    lspExited,                      \* the child's "exit" event was handled
    serverReaderDone,               \* the server read loop has ended
    exitCalls,                      \* the calls of opts.onExit, in order: (code, signal)
    sentToServer,                   \* messages the last step wrote to the server
    sentToClient,                   \* messages the last step wrote to each client
    forwardedTo,                    \* client each forwarded server request was written to
    lspInitializeCount,             \* server side: initialize messages received
    lspInitializeId,                \* server side: id of the initialize it received
    lspInitializeAnswer,            \* server side: what it answered to that initialize
    publishedDiagnostics,           \* client side: diagnostics last published for each URI
    dispatched,                     \* the event the last step handled
    framing,                        \* a byte stream and the readMessages call that reads it
    launch,                         \* connect invocations and the daemons they start
    flow                            \* the writers and the paused reads of a mux

muxVars == <<serverSpec, nextClientId, clients, destroyed, primaryClientId,
          nextServerRequestId, pendingClientRequests, pendingInternalRequests,
          clientSupportsPullDiagnostics, nextForwardedServerReqId,
          pendingServerRequests, init, queuedInitialize, diagnosticDebounce,
          debounceTimers, diagnosticsInFlight, lastPublishedDiagnostics,
          pendingDiagnosticsAfterInit, initDone, idleTimers, emptyTicks,
          lspKilled, lspExited, serverReaderDone, exitCalls, sentToServer, sentToClient,
          forwardedTo, lspInitializeCount, lspInitializeId, lspInitializeAnswer,
          publishedDiagnostics, dispatched>>

vars == <<muxVars, framing, launch, flow>>

----------------------------------------------------------------------------
(* Bounds of the model *)

\* connect invocations for one (project root, server name) pair
MaxConnects == 2
\* buffers a BufferedWriter may hold in its queue
MaxBuffered == 1
\* messages written to the server while their order is observed
MaxWrites == 4
\* connections accepted over the mux's lifetime
MaxClients == 3
\* server-bound ids minted over the mux's lifetime
MaxRequests == 2
\* entries the deferred-initializer queue may hold
MaxQueue == 1
\* server requests forwarded to a client over the mux's lifetime
MaxForwarded == 2
\* ticks of the model's clock in one idle interval
IdleTicks == 2
\* messages in one encoded stream
MaxMessages == 2
\* initial capacity of the read buffer (8192 in the source, scaled down so
\* that the buffer has to slide and to grow)
FrameBufferSize == 4

ClientIdSpace == 1..MaxClients

----------------------------------------------------------------------------
(* JSON values.  A message is a record that has the fields the JSON object *)
(* has; null and undefined are both Null.  The member jsonrpc: "2.0",      *)
(* which every message carries, is left out of the records.                *)

Null == [null |-> TRUE]
NoClient == 0
Num(n) == [num |-> n]
Str(x) == [str |-> x]
IsNumber(id) == "num" \in DOMAIN id
Val(n) == [val |-> n]

EmptyObject == <<>>

Has(msg, f) == f \in DOMAIN msg
Field(msg, f) == IF f \in DOMAIN msg THEN msg[f] ELSE Null
\* the shape tests of onClientMessage and onServerMessage
IsRequest(msg) == Has(msg, "method") /\ Field(msg, "id") # Null
IsResponse(msg) == ~ Has(msg, "method") /\ Field(msg, "id") # Null

IsNotification(msg) == Has(msg, "method") /\ Field(msg, "id") = Null

\* msg.method, "" when the message has none
Method(msg) == IF "method" \in DOMAIN msg THEN msg.method ELSE ""
\* optional chaining: obj?.a?.b?.c
RECURSIVE Path(_, _)
Path(obj, fields) ==
    IF fields = <<>> THEN obj
    ELSE IF Head(fields) \in DOMAIN obj THEN Path(obj[Head(fields)], Tail(fields))
    ELSE Null

\* { ...msg, id }
WithId(msg, id) == [f \in DOMAIN msg \cup {"id"} |-> IF f = "id" THEN id ELSE msg[f]]

\* Map.set and Map.delete
MapSet(m, k, v) == [x \in DOMAIN m \cup {k} |-> IF x = k THEN v ELSE m[x]]
MapDelete(m, k) == [x \in DOMAIN m \ {k} |-> m[x]]

SeqToSet(q) == {q[i] : i \in 1..Len(q)}
\* the numbers of a set in ascending order, as a Map of numeric keys iterates
RECURSIVE SetToSeq(_)
SetToSeq(S) ==
    IF S = {} THEN <<>>
    ELSE LET least == CHOOSE x \in S : \A y \in S : x <= y
         IN <<least>> \o SetToSeq(S \ {least})
Remove(q, x) == SelectSeq(q, LAMBDA y : y # x)

----------------------------------------------------------------------------
(* The state record *)

Cur == [
    serverSpec |-> serverSpec, nextClientId |-> nextClientId, clients |-> clients,
    destroyed |-> destroyed, primaryClientId |-> primaryClientId,
    nextServerRequestId |-> nextServerRequestId,
    pendingClientRequests |-> pendingClientRequests,
    pendingInternalRequests |-> pendingInternalRequests,
    clientSupportsPullDiagnostics |-> clientSupportsPullDiagnostics,
    nextForwardedServerReqId |-> nextForwardedServerReqId,
    pendingServerRequests |-> pendingServerRequests,
    init |-> init, queuedInitialize |-> queuedInitialize,
    diagnosticDebounce |-> diagnosticDebounce, debounceTimers |-> debounceTimers,
    diagnosticsInFlight |-> diagnosticsInFlight,
    lastPublishedDiagnostics |-> lastPublishedDiagnostics,
    pendingDiagnosticsAfterInit |-> pendingDiagnosticsAfterInit,
    initDone |-> initDone, idleTimers |-> idleTimers, emptyTicks |-> emptyTicks,
    lspKilled |-> lspKilled, lspExited |-> lspExited,
    serverReaderDone |-> serverReaderDone, exitCalls |-> exitCalls,
    sentToServer |-> <<>>, sentToClient |-> [c \in ClientIdSpace |-> <<>>],
    forwardedTo |-> forwardedTo, lspInitializeCount |-> lspInitializeCount,
    lspInitializeId |-> lspInitializeId, lspInitializeAnswer |-> lspInitializeAnswer,
    publishedDiagnostics |-> publishedDiagnostics]

Commit(s) ==
    /\ framing' = framing
    /\ launch' = launch
    /\ flow' = flow
    /\ serverSpec' = s.serverSpec
    /\ nextClientId' = s.nextClientId
    /\ clients' = s.clients
    /\ destroyed' = s.destroyed
    /\ primaryClientId' = s.primaryClientId
    /\ nextServerRequestId' = s.nextServerRequestId
    /\ pendingClientRequests' = s.pendingClientRequests
    /\ pendingInternalRequests' = s.pendingInternalRequests
    /\ clientSupportsPullDiagnostics' = s.clientSupportsPullDiagnostics
    /\ nextForwardedServerReqId' = s.nextForwardedServerReqId
    /\ pendingServerRequests' = s.pendingServerRequests
    /\ init' = s.init
    /\ queuedInitialize' = s.queuedInitialize
    /\ diagnosticDebounce' = s.diagnosticDebounce
    /\ debounceTimers' = s.debounceTimers
    /\ diagnosticsInFlight' = s.diagnosticsInFlight
    /\ lastPublishedDiagnostics' = s.lastPublishedDiagnostics
    /\ pendingDiagnosticsAfterInit' = s.pendingDiagnosticsAfterInit
    /\ initDone' = s.initDone
    /\ idleTimers' = s.idleTimers
    /\ emptyTicks' = s.emptyTicks
    /\ lspKilled' = s.lspKilled
    /\ lspExited' = s.lspExited
    /\ serverReaderDone' = s.serverReaderDone
    /\ exitCalls' = s.exitCalls
    /\ sentToServer' = s.sentToServer
    /\ sentToClient' = s.sentToClient
    /\ forwardedTo' = s.forwardedTo
    /\ lspInitializeCount' = s.lspInitializeCount
    /\ lspInitializeId' = s.lspInitializeId
    /\ lspInitializeAnswer' = s.lspInitializeAnswer
    /\ publishedDiagnostics' = s.publishedDiagnostics

----------------------------------------------------------------------------
(* Writers *)

\* MuxState.writeToServer: the server-bound writer takes the message; the
\* server counts the initialize messages it is handed.
writeToServer(s, msg) ==
    LET isInit == Method(msg) = "initialize"
    IN [s EXCEPT !.sentToServer = Append(@, msg),
                 !.lspInitializeCount = IF isInit THEN @ + 1 ELSE @,
                 !.lspInitializeId = IF isInit /\ Has(msg, "id") /\ IsNumber(msg.id)
                                     THEN msg.id.num ELSE @]

\* ClientConn.write, reached through this.clients.get(clientId): nothing is
\* written for an id that is not in the map.
clientWrite(s, clientId, msg) ==
    IF clientId \in SeqToSet(s.clients)
    THEN [s EXCEPT !.sentToClient[clientId] = Append(@, msg)]
    ELSE s

\* MuxState.broadcast
RECURSIVE broadcastTo(_, _, _)
broadcastTo(s, cs, msg) ==
    IF cs = <<>> THEN s ELSE broadcastTo(clientWrite(s, Head(cs), msg), Tail(cs), msg)

broadcast(s, msg) == broadcastTo(s, s.clients, msg)

----------------------------------------------------------------------------
(* Server specs (servers/tsgo.ts, servers/oxlint.ts) *)

usesDiagnosticsBridge(s) == s.serverSpec = "tsgo"

\* a hook that writes the capability whether or not the client sent one
injectPullDiagnosticsOverwriting(msg) ==
    LET params == IF Has(msg, "params") /\ msg.params # Null THEN msg.params ELSE EmptyObject
        caps == IF Has(params, "capabilities") /\ params.capabilities # Null
                THEN params.capabilities ELSE EmptyObject
        textDocument == IF Has(caps, "textDocument") /\ caps.textDocument # Null
                        THEN caps.textDocument ELSE EmptyObject
        td2 == [f \in DOMAIN textDocument \cup {"diagnostic"} |->
                   IF f = "diagnostic" THEN [dynamicRegistration |-> FALSE]
                   ELSE textDocument[f]]
        caps2 == [f \in DOMAIN caps \cup {"textDocument"} |->
                   IF f = "textDocument" THEN td2 ELSE caps[f]]
        params2 == [f \in DOMAIN params \cup {"capabilities"} |->
                   IF f = "capabilities" THEN caps2 ELSE params[f]]
    IN [f \in DOMAIN msg \cup {"params"} |-> IF f = "params" THEN params2 ELSE msg[f]]

\* tsgo's prepareInitialize hook
injectPullDiagnostics(msg) ==
    LET params == IF Has(msg, "params") /\ msg.params # Null THEN msg.params ELSE EmptyObject
        caps == IF Has(params, "capabilities") /\ params.capabilities # Null
                THEN params.capabilities ELSE EmptyObject
        textDocument == IF Has(caps, "textDocument") /\ caps.textDocument # Null
                        THEN caps.textDocument ELSE EmptyObject
        td2 == [f \in DOMAIN textDocument \cup {"diagnostic"} |->
                   IF f = "diagnostic" THEN [dynamicRegistration |-> FALSE]
                   ELSE textDocument[f]]
        caps2 == [f \in DOMAIN caps \cup {"textDocument"} |->
                   IF f = "textDocument" THEN td2 ELSE caps[f]]
        params2 == [f \in DOMAIN params \cup {"capabilities"} |->
                   IF f = "capabilities" THEN caps2 ELSE params[f]]
    IN IF Field(textDocument, "diagnostic") # Null THEN msg
       ELSE [f \in DOMAIN msg \cup {"params"} |-> IF f = "params" THEN params2 ELSE msg[f]]

\* MuxState.prepareInitializeForServer
prepareInitializeForServer(s, msg) ==
    IF s.serverSpec = "tsgo" THEN injectPullDiagnostics(msg) ELSE msg

\* MuxState.recordClientCapabilities
recordClientCapabilities(s, clientId, msg) ==
    LET hasPullDiagnostics ==
            Path(msg, <<"params", "capabilities", "textDocument", "diagnostic">>) # Null
    IN [s EXCEPT !.clientSupportsPullDiagnostics = MapSet(@, clientId, hasPullDiagnostics)]

\* MuxState.hasNonPullClients
hasNonPullClients(s) ==
    \E c \in SeqToSet(s.clients) : ~ s.clientSupportsPullDiagnostics[c]

\* MuxState.publishDiagnosticsToNonPullClients
RECURSIVE publishTo(_, _, _)
publishTo(s, cs, msg) ==
    IF cs = <<>> THEN s
    ELSE IF s.clientSupportsPullDiagnostics[Head(cs)] THEN publishTo(s, Tail(cs), msg)
    ELSE publishTo(clientWrite(s, Head(cs), msg), Tail(cs), msg)

\* a mux that publishes to every connected client
publishDiagnosticsToAllClients(s, uri, diagnostics) ==
    broadcast([s EXCEPT !.publishedDiagnostics =
                            IF s.clients # <<>> THEN MapSet(@, uri, diagnostics) ELSE @],
              [method |-> "textDocument/publishDiagnostics",
               params |-> [uri |-> Str(uri), diagnostics |-> diagnostics]])

\* the clients note what was published whenever a notification is written
publishDiagnosticsToNonPullClients(s, uri, diagnostics) ==
    publishTo([s EXCEPT !.publishedDiagnostics =
                            IF \E c \in SeqToSet(s.clients) :
                                   ~ s.clientSupportsPullDiagnostics[c]
                            THEN MapSet(@, uri, diagnostics) ELSE @],
              s.clients,
              [method |-> "textDocument/publishDiagnostics",
               params |-> [uri |-> Str(uri), diagnostics |-> diagnostics]])

\* a mux whose bridge numbers its pulls by itself, from 1
sendDiagnosticsRequestOwnIds(s, uri, msg) ==
    LET serverReqId == Cardinality(DOMAIN s.pendingInternalRequests) + 1
        s1 == [s EXCEPT !.pendingInternalRequests =
                            MapSet(@, serverReqId,
                                   [kind |-> "bridge_pull_diagnostics", uri |-> uri])]
    IN writeToServer(s1, WithId(msg, Num(serverReqId)))

\* MuxState.sendDiagnosticsRequest
sendDiagnosticsRequest(s, uri, msg) ==
    LET serverReqId == s.nextServerRequestId
        s1 == [s EXCEPT !.nextServerRequestId = @ + 1,
                        !.pendingInternalRequests =
                            MapSet(@, serverReqId,
                                   [kind |-> "bridge_pull_diagnostics", uri |-> uri])]
    IN writeToServer(s1, WithId(msg, Num(serverReqId)))

----------------------------------------------------------------------------
(* DiagnosticsBridge *)

Arr(q) == [arr |-> q]
IsArray(v) == "arr" \in DOMAIN v

\* tsgo's diagnostics.buildRequest, which is also the bridge's default request
buildRequest(uri) ==
    [method |-> "textDocument/diagnostic",
     params |-> [textDocument |-> [uri |-> Str(uri)], identifier |-> Null,
                 previousResultId |-> Null]]

\* a bridge whose request does not ask whether a non-pull client is there
requestUnguarded(s, uri) ==
    IF uri \in s.diagnosticsInFlight THEN s
    ELSE sendDiagnosticsRequest([s EXCEPT !.diagnosticsInFlight = @ \cup {uri}],
                                uri, buildRequest(uri))

\* DiagnosticsBridge.request, run by the debounce timer
request(s, uri) ==
    IF uri \in s.diagnosticsInFlight THEN s
    ELSE IF ~ hasNonPullClients(s) THEN s
    ELSE sendDiagnosticsRequest([s EXCEPT !.diagnosticsInFlight = @ \cup {uri}],
                                uri, buildRequest(uri))

\* clearTimeout: the timer of that handle, if it is still pending, is gone
clearTimeout(timers, handle) == {t \in timers : t.handle # handle}

\* setTimeout returns a handle that no pending timer has and no entry of
\* the map holds: the least such number stands for it
setTimeout(timers, held) ==
    CHOOSE n \in 1..(Cardinality(timers) + Cardinality(held) + 1) :
        /\ n \notin held /\ \A t \in timers : t.handle # n
        /\ \A m \in 1..(n - 1) : m \in held \/ \E t \in timers : t.handle = m

\* a bridge whose schedule leaves the URI's earlier timer running
scheduleKeepingTimer(s, uri) ==
    LET others == {s.diagnosticDebounce[u] : u \in DOMAIN s.diagnosticDebounce \ {uri}}
        timer == setTimeout(s.debounceTimers, others)
    IN IF ~ hasNonPullClients(s) THEN s
       ELSE IF ~ s.initDone
       THEN [s EXCEPT !.pendingDiagnosticsAfterInit = @ \cup {uri}]
       ELSE [s EXCEPT !.debounceTimers = s.debounceTimers \cup {[handle |-> timer, uri |-> uri]},
                      !.diagnosticDebounce = MapSet(@, uri, timer)]

\* DiagnosticsBridge.schedule: a timer replaces the URI's earlier one
schedule(s, uri) ==
    LET cleared == IF uri \in DOMAIN s.diagnosticDebounce
                   THEN clearTimeout(s.debounceTimers, s.diagnosticDebounce[uri])
                   ELSE s.debounceTimers
        others == {s.diagnosticDebounce[u] : u \in DOMAIN s.diagnosticDebounce \ {uri}}
        timer == setTimeout(cleared, others)
    IN IF ~ hasNonPullClients(s) THEN s
       ELSE IF ~ s.initDone
       THEN [s EXCEPT !.pendingDiagnosticsAfterInit = @ \cup {uri}]
       ELSE [s EXCEPT !.debounceTimers = cleared \cup {[handle |-> timer, uri |-> uri]},
                      !.diagnosticDebounce = MapSet(@, uri, timer)]

\* DiagnosticsBridge.markInitDone
RECURSIVE scheduleAll(_, _)
scheduleAll(s, uris) ==
    IF uris = {} THEN s
    ELSE LET uri == CHOOSE u \in uris : TRUE
         IN scheduleAll(schedule(s, uri), uris \ {uri})

\* a bridge whose markInitDone forgets the URIs that were waiting
markInitDoneForgetting(s) ==
    [s EXCEPT !.initDone = TRUE, !.pendingDiagnosticsAfterInit = {}]

markInitDone(s) ==
    LET queued == s.pendingDiagnosticsAfterInit
    IN scheduleAll([s EXCEPT !.initDone = TRUE, !.pendingDiagnosticsAfterInit = {}],
                   queued)

\* a bridge whose didClose forgets every document
onDidCloseForgettingAll(s, uri) ==
    [s EXCEPT !.debounceTimers = {},
              !.diagnosticDebounce = <<>>,
              !.lastPublishedDiagnostics = <<>>,
              !.pendingDiagnosticsAfterInit = {},
              !.diagnosticsInFlight = {}]

\* DiagnosticsBridge.onDidClose
onDidClose(s, uri) ==
    [s EXCEPT !.debounceTimers = IF uri \in DOMAIN s.diagnosticDebounce
                                 THEN clearTimeout(@, s.diagnosticDebounce[uri]) ELSE @,
              !.diagnosticDebounce = MapDelete(@, uri),
              !.lastPublishedDiagnostics = MapDelete(@, uri),
              !.pendingDiagnosticsAfterInit = @ \ {uri},
              !.diagnosticsInFlight = @ \ {uri}]

\* DiagnosticsBridge.onFileEvent
onFileEvent(s, method, uri) ==
    IF method \notin {"textDocument/didOpen", "textDocument/didChange",
                      "textDocument/didSave"}
    THEN s
    ELSE schedule(s, uri)

\* a bridge that answers "unchanged" with no diagnostics at all
bridgeOnServerResponseNoReplay(s, uri, msg) ==
    LET result == Field(msg, "result")
        kind == Field(result, "kind")
        items == Field(result, "items")
        diagnostics ==
            IF kind = Str("full") /\ IsArray(items) THEN items
            ELSE IF kind = Str("unchanged") THEN Arr(<<>>)
            ELSE IF IsArray(items) THEN items
            ELSE Arr(<<>>)
        s1 == [s EXCEPT !.diagnosticsInFlight = @ \ {uri},
                        !.lastPublishedDiagnostics = MapSet(@, uri, diagnostics)]
    IN IF ~ hasNonPullClients(s1) THEN s1
       ELSE publishDiagnosticsToNonPullClients(s1, uri, diagnostics)

\* DiagnosticsBridge.onServerResponse
bridgeOnServerResponse(s, uri, msg) ==
    LET result == Field(msg, "result")
        kind == Field(result, "kind")
        items == Field(result, "items")
        diagnostics ==
            IF kind = Str("full") /\ IsArray(items) THEN items
            ELSE IF kind = Str("unchanged")
            THEN (IF uri \in DOMAIN s.lastPublishedDiagnostics
                  THEN s.lastPublishedDiagnostics[uri] ELSE Arr(<<>>))
            ELSE IF IsArray(items) THEN items
            ELSE Arr(<<>>)
        s1 == [s EXCEPT !.diagnosticsInFlight = @ \ {uri},
                        !.lastPublishedDiagnostics = MapSet(@, uri, diagnostics)]
    IN IF ~ hasNonPullClients(s1) THEN s1
       ELSE publishDiagnosticsToNonPullClients(s1, uri, diagnostics)

----------------------------------------------------------------------------
(* MuxState: client -> server path *)

\* MuxState.respondWithCachedInit
respondWithCachedInit(s, clientId, id, cached) ==
    IF cached.error # Null
    THEN clientWrite(s, clientId, [id |-> id, error |-> cached.error])
    ELSE clientWrite(s, clientId, [id |-> id, result |-> cached.result])

\* a mux that records the minted id's owner as the original id
pendingRequestOwnId(clientId, id) == [clientId |-> clientId, originalId |-> Num(clientId)]

\* the PendingRequest that onClientRequest and handleInitialize record
pendingRequest(clientId, id) == [clientId |-> clientId, originalId |-> id]

\* a mux that forwards every initialize that arrives before the cache is filled
handleInitializeNoQueue(s, clientId, id, msg) ==
    LET s1 == recordClientCapabilities(s, clientId, msg)
        serverReqId == s1.nextServerRequestId
        s2 == [s1 EXCEPT
                 !.init = [state |-> "in_progress", primaryClientId |-> clientId],
                 !.primaryClientId = IF @ = NoClient THEN clientId ELSE @,
                 !.nextServerRequestId = @ + 1,
                 !.pendingClientRequests =
                     MapSet(@, serverReqId, [clientId |-> clientId, originalId |-> id])]
    IN IF s1.init.state = "done"
       THEN respondWithCachedInit(s1, clientId, id, s1.init.response)
       ELSE writeToServer(s2, WithId(prepareInitializeForServer(s2, msg),
                                     Num(serverReqId)))

\* MuxState.handleInitialize
handleInitialize(s, clientId, id, msg) ==
    LET s1 == recordClientCapabilities(s, clientId, msg)
        serverReqId == s1.nextServerRequestId
        s2 == [s1 EXCEPT
                 !.init = [state |-> "in_progress", primaryClientId |-> clientId],
                 !.primaryClientId = IF @ = NoClient THEN clientId ELSE @,
                 !.nextServerRequestId = @ + 1,
                 !.pendingClientRequests =
                     MapSet(@, serverReqId, pendingRequest(clientId, id))]
    IN IF s1.init.state = "done"
       THEN respondWithCachedInit(s1, clientId, id, s1.init.response)
       ELSE IF s1.init.state = "in_progress"
       THEN [s1 EXCEPT !.queuedInitialize =
                           Append(@, [clientId |-> clientId, id |-> id])]
       ELSE writeToServer(s2, WithId(prepareInitializeForServer(s2, msg),
                                     Num(serverReqId)))

\* MuxState.onClientRequest
onClientRequest(s, clientId, method, id, msg) ==
    LET serverReqId == s.nextServerRequestId
        s1 == [s EXCEPT
                 !.nextServerRequestId = @ + 1,
                 !.pendingClientRequests =
                     MapSet(@, serverReqId, pendingRequest(clientId, id))]
    IN IF method = "initialize" THEN handleInitialize(s, clientId, id, msg)
       ELSE writeToServer(s1, WithId(msg, Num(serverReqId)))

\* MuxState.maybeTriggerDiagnosticsBridge
maybeTriggerDiagnosticsBridge(s, method, msg) ==
    LET uri == IF method \in {"textDocument/didOpen", "textDocument/didChange",
                              "textDocument/didSave"}
               THEN Path(msg, <<"params", "textDocument", "uri">>) ELSE Null
    IN IF ~ usesDiagnosticsBridge(s) THEN s
       ELSE IF uri = Null THEN s
       ELSE onFileEvent(s, method, uri.str)

\* a mux that forwards every client's initialized
onClientNotificationFromAnyone(s, clientId, method, msg) ==
    LET s1 == maybeTriggerDiagnosticsBridge(s, method, msg)
        uri == Path(msg, <<"params", "textDocument", "uri">>)
        s2 == IF method = "textDocument/didClose" /\ uri # Null
                 /\ usesDiagnosticsBridge(s1)
              THEN onDidClose(s1, uri.str) ELSE s1
    IN writeToServer(s2, msg)

\* MuxState.onClientNotification
onClientNotification(s, clientId, method, msg) ==
    LET s1 == maybeTriggerDiagnosticsBridge(s, method, msg)
        uri == Path(msg, <<"params", "textDocument", "uri">>)
        s2 == IF method = "textDocument/didClose" /\ uri # Null
                 /\ usesDiagnosticsBridge(s1)
              THEN onDidClose(s1, uri.str) ELSE s1
    IN IF method = "initialized"
       THEN (IF s2.primaryClientId = clientId THEN writeToServer(s2, msg) ELSE s2)
       ELSE writeToServer(s2, msg)

\* a mux that passes the client's response on under the forwarded id
onClientResponseNoRewrite(s, clientId, id, msg) ==
    IF ~ IsNumber(id) THEN writeToServer(s, msg)
    ELSE IF id.num \notin DOMAIN s.pendingServerRequests THEN writeToServer(s, msg)
    ELSE LET s1 == [s EXCEPT !.pendingServerRequests = MapDelete(@, id.num),
                             !.forwardedTo = MapDelete(@, id.num)]
         IN writeToServer(s1, msg)

\* MuxState.onClientResponse
onClientResponse(s, clientId, id, msg) ==
    IF ~ IsNumber(id) THEN writeToServer(s, msg)
    ELSE IF id.num \notin DOMAIN s.pendingServerRequests THEN writeToServer(s, msg)
    ELSE LET pending == s.pendingServerRequests[id.num]
             s1 == [s EXCEPT !.pendingServerRequests = MapDelete(@, id.num),
                             !.forwardedTo = MapDelete(@, id.num)]
         IN writeToServer(s1, WithId(msg, pending.serverId))

\* MuxState.onClientMessage
onClientMessage(s, clientId, msg) ==
    LET method == Method(msg)
        id == Field(msg, "id")
    IN IF ~ Has(msg, "method") /\ id # Null THEN onClientResponse(s, clientId, id, msg)
       ELSE IF Has(msg, "method") /\ id = Null
       THEN onClientNotification(s, clientId, method, msg)
       ELSE IF Has(msg, "method") /\ id # Null
       THEN onClientRequest(s, clientId, method, id, msg)
       ELSE writeToServer(s, msg)

----------------------------------------------------------------------------
(* MuxState: server -> client path *)

\* MuxState.flushQueuedInitialize
RECURSIVE respondToQueued(_, _, _)
respondToQueued(s, queued, cached) ==
    IF queued = <<>> THEN s
    ELSE respondToQueued(
             respondWithCachedInit(s, Head(queued).clientId, Head(queued).id, cached),
             Tail(queued), cached)

flushQueuedInitialize(s) ==
    IF s.init.state # "done" THEN s
    ELSE respondToQueued([s EXCEPT !.queuedInitialize = <<>>],
                         s.queuedInitialize, s.init.response)

\* MuxState.onInternalServerResponse
onInternalServerResponse(s, internal, msg) ==
    IF internal.kind = "bridge_pull_diagnostics" /\ usesDiagnosticsBridge(s)
    THEN bridgeOnServerResponse(s, internal.uri, msg)
    ELSE s

\* the test of onServerResponse that decides that a response is the
\* initialize response
isInitializeResponse(s, pending) ==
    s.init.state = "in_progress" /\ pending.clientId = s.init.primaryClientId

\* a mux that also passes the answer to an internal request on to the clients
onServerResponseLeakingInternal(s, id, msg) ==
    IF ~ IsNumber(id) THEN broadcast(s, msg)
    ELSE IF id.num \in DOMAIN s.pendingInternalRequests
    THEN broadcast(onInternalServerResponse(
                       [s EXCEPT !.pendingInternalRequests = MapDelete(@, id.num)],
                       s.pendingInternalRequests[id.num], msg),
                   msg)
    ELSE IF id.num \notin DOMAIN s.pendingClientRequests THEN broadcast(s, msg)
    ELSE LET pending == s.pendingClientRequests[id.num]
             s1 == [s EXCEPT !.pendingClientRequests = MapDelete(@, id.num)]
             response == [result |-> Field(msg, "result"), error |-> Field(msg, "error")]
             s2 == IF isInitializeResponse(s1, pending)
                   THEN LET s3 == flushQueuedInitialize(
                                      [s1 EXCEPT !.init = [state |-> "done",
                                                           response |-> response]])
                        IN IF usesDiagnosticsBridge(s3) THEN markInitDone(s3) ELSE s3
                   ELSE s1
         IN clientWrite(s2, pending.clientId, WithId(msg, pending.originalId))

\* MuxState.onServerResponse
onServerResponse(s, id, msg) ==
    IF ~ IsNumber(id) THEN broadcast(s, msg)
    ELSE IF id.num \in DOMAIN s.pendingInternalRequests
    THEN onInternalServerResponse(
             [s EXCEPT !.pendingInternalRequests = MapDelete(@, id.num)],
             s.pendingInternalRequests[id.num], msg)
    ELSE IF id.num \notin DOMAIN s.pendingClientRequests THEN broadcast(s, msg)
    ELSE LET pending == s.pendingClientRequests[id.num]
             s1 == [s EXCEPT !.pendingClientRequests = MapDelete(@, id.num)]
             response == [result |-> Field(msg, "result"), error |-> Field(msg, "error")]
             s2 == IF isInitializeResponse(s1, pending)
                   THEN LET s3 == flushQueuedInitialize(
                                      [s1 EXCEPT !.init = [state |-> "done",
                                                           response |-> response]])
                        IN IF usesDiagnosticsBridge(s3) THEN markInitDone(s3) ELSE s3
                   ELSE s1
         IN clientWrite(s2, pending.clientId, WithId(msg, pending.originalId))

\* a mux that answers workspace/configuration with an empty array
onServerRequestEmptyConfiguration(s, method, id, msg) ==
    LET target == IF s.primaryClientId # NoClient
                     /\ s.primaryClientId \in SeqToSet(s.clients)
                  THEN s.primaryClientId ELSE NoClient
        forwardedId == s.nextForwardedServerReqId
        s1 == [s EXCEPT !.nextForwardedServerReqId = @ - 1,
                        !.pendingServerRequests =
                            MapSet(@, forwardedId, [serverId |-> id]),
                        !.forwardedTo = MapSet(@, forwardedId, target)]
    IN IF method \in {"client/registerCapability", "client/unregisterCapability"}
       THEN writeToServer(s, [id |-> id, result |-> Null])
       ELSE IF method = "workspace/configuration"
       THEN writeToServer(s, [id |-> id, result |-> Arr(<<>>)])
       ELSE IF target = NoClient
       THEN writeToServer(s, [id |-> id,
                              error |-> [code |-> -32601,
                                         message |-> "No clients connected"]])
       ELSE clientWrite(s1, target, WithId(msg, Num(forwardedId)))

\* a mux that forwards a server request to every connected client
onServerRequestToAll(s, method, id, msg) ==
    LET items == Path(msg, <<"params", "items">>)
        result == IF IsArray(items) THEN Arr([i \in 1..Len(items.arr) |-> Null])
                  ELSE Arr(<<>>)
        target == IF s.primaryClientId # NoClient
                     /\ s.primaryClientId \in SeqToSet(s.clients)
                  THEN s.primaryClientId ELSE NoClient
        forwardedId == s.nextForwardedServerReqId
        s1 == [s EXCEPT !.nextForwardedServerReqId = @ - 1,
                        !.pendingServerRequests =
                            MapSet(@, forwardedId, [serverId |-> id]),
                        !.forwardedTo = MapSet(@, forwardedId, target)]
    IN IF method \in {"client/registerCapability", "client/unregisterCapability"}
       THEN writeToServer(s, [id |-> id, result |-> Null])
       ELSE IF method = "workspace/configuration"
       THEN writeToServer(s, [id |-> id, result |-> result])
       ELSE IF target = NoClient
       THEN writeToServer(s, [id |-> id,
                              error |-> [code |-> -32601,
                                         message |-> "No clients connected"]])
       ELSE broadcast(s1, WithId(msg, Num(forwardedId)))

\* MuxState.onServerRequest
onServerRequest(s, method, id, msg) ==
    LET items == Path(msg, <<"params", "items">>)
        result == IF IsArray(items) THEN Arr([i \in 1..Len(items.arr) |-> Null])
                  ELSE Arr(<<>>)
        target == IF s.primaryClientId # NoClient
                     /\ s.primaryClientId \in SeqToSet(s.clients)
                  THEN s.primaryClientId ELSE NoClient
        forwardedId == s.nextForwardedServerReqId
        s1 == [s EXCEPT !.nextForwardedServerReqId = @ - 1,
                        !.pendingServerRequests =
                            MapSet(@, forwardedId, [serverId |-> id]),
                        !.forwardedTo = MapSet(@, forwardedId, target)]
    IN IF method \in {"client/registerCapability", "client/unregisterCapability"}
       THEN writeToServer(s, [id |-> id, result |-> Null])
       ELSE IF method = "workspace/configuration"
       THEN writeToServer(s, [id |-> id, result |-> result])
       ELSE IF target = NoClient
       THEN writeToServer(s, [id |-> id,
                              error |-> [code |-> -32601,
                                         message |-> "No clients connected"]])
       ELSE clientWrite(s1, target, WithId(msg, Num(forwardedId)))

\* a mux that sends the server's notifications to the primary client only
onServerMessageToPrimary(s, msg) ==
    LET method == Method(msg)
        id == Field(msg, "id")
    IN IF ~ Has(msg, "method") /\ id # Null THEN onServerResponse(s, id, msg)
       ELSE IF Has(msg, "method") /\ id = Null
       THEN clientWrite(s, s.primaryClientId, msg)
       ELSE IF Has(msg, "method") /\ id # Null THEN onServerRequest(s, method, id, msg)
       ELSE broadcast(s, msg)

\* MuxState.onServerMessage
onServerMessage(s, msg) ==
    LET method == Method(msg)
        id == Field(msg, "id")
    IN IF ~ Has(msg, "method") /\ id # Null THEN onServerResponse(s, id, msg)
       ELSE IF Has(msg, "method") /\ id = Null THEN broadcast(s, msg)
       ELSE IF Has(msg, "method") /\ id # Null THEN onServerRequest(s, method, id, msg)
       ELSE broadcast(s, msg)

----------------------------------------------------------------------------
(* MuxState: connections and lifecycle *)

\* MuxState.addClient, up to the registration of the close handler
addClient(s) ==
    LET clientId == s.nextClientId
    IN [s EXCEPT !.nextClientId = @ + 1,
                 !.clients = Append(@, clientId),
                 !.clientSupportsPullDiagnostics = MapSet(@, clientId, FALSE),
                 !.primaryClientId = IF @ = NoClient THEN clientId ELSE @]

\* a close handler that forgets to elect a successor
nextPrimaryNone(remaining) == NoClient

\* a close handler that elects the latest client instead of the earliest
nextPrimaryLast(remaining) ==
    IF remaining = <<>> THEN NoClient ELSE remaining[Len(remaining)]

\* clients.keys().next().value ?? null, after the closed client was deleted
nextPrimary(remaining) ==
    IF remaining = <<>> THEN NoClient ELSE Head(remaining)

\* the "close" handler that addClient registers on the socket
onSocketClose(s, clientId) ==
    LET remaining == Remove(s.clients, clientId)
    IN [s EXCEPT !.clients = remaining,
                 !.destroyed = @ \ {clientId},
                 !.clientSupportsPullDiagnostics = MapDelete(@, clientId),
                 !.primaryClientId = IF @ = clientId THEN nextPrimary(remaining) ELSE @,
                 !.idleTimers = IF remaining = <<>> THEN Append(@, IdleTicks) ELSE @]

\* MuxState.handleExit, with opts.onExit given
handleExit(s, code, signal) ==
    [s EXCEPT !.exitCalls = Append(@, [code |-> code, signal |-> signal])]

\* MuxState.shutdown
shutdown(s) == handleExit([s EXCEPT !.lspKilled = TRUE], Num(0), Null)

\* the callback of the idle setTimeout of the close handler
onIdleTimeout(s) ==
    LET s1 == [s EXCEPT !.idleTimers = Tail(@)]
    IN IF s1.clients = <<>> THEN shutdown(s1) ELSE s1

\* the catch clause of the server read loop: the error is logged
onServerReadError(s) == [s EXCEPT !.serverReaderDone = TRUE]

\* a catch clause that closes every client
onClientReadErrorCloseAll(s, clientId) ==
    [s EXCEPT !.destroyed = @ \cup SeqToSet(s.clients)]

\* the catch clause of a client's read loop: the error is logged and
\* conn.close() destroys the socket
onClientReadError(s, clientId) == [s EXCEPT !.destroyed = @ \cup {clientId}]

\* an "exit" handler that leaves the clients' sockets open
onLspExitKeepClients(s, code, signal) ==
    handleExit([s EXCEPT !.lspExited = TRUE],
               IF code = Null THEN Num(1) ELSE code, signal)

\* the child's "exit" handler of startServerReadLoop
onLspExit(s, code, signal) ==
    handleExit([s EXCEPT !.destroyed = @ \cup SeqToSet(s.clients), !.lspExited = TRUE],
               IF code = Null THEN Num(1) ELSE code, signal)

----------------------------------------------------------------------------
(* lsp/framing: encodeMessage and readMessages.  A stream is a sequence of *)
(* bytes; a byte is written as the text it stands for ("{", "1", "\r");    *)
(* the header name and each JSON key, string and literal count as one byte.*)

CR == "\r"
LF == "\n"
Digits == <<"0", "1", "2", "3", "4", "5", "6", "7", "8", "9">>
IsDigit(b) == \E i \in 1..10 : Digits[i] = b
DigitValue(b) == (CHOOSE i \in 1..10 : Digits[i] = b) - 1

\* `${n}`: the decimal digits of a length
RECURSIVE Decimal(_)
Decimal(n) == IF n < 10 THEN <<Digits[n + 1]>> ELSE Decimal(n \div 10) \o <<Digits[(n % 10) + 1]>>

\* the keys of a message, in the order JSON.stringify writes them
KeyOrder == <<"id", "method", "params">>
KeyByte(k) == "\"" \o k \o "\""

\* JSON.stringify of a value: a number below ten, a string, null
StringifyValue(v) ==
    IF "num" \in DOMAIN v THEN Decimal(v.num)
    ELSE IF "str" \in DOMAIN v THEN <<"\"" \o v.str \o "\"">>
    ELSE <<"null">>

\* JSON.stringify of a message, then Buffer.from(json, "utf8")
RECURSIVE StringifyFields(_, _, _)
StringifyFields(msg, keys, first) ==
    IF keys = <<>> THEN <<>>
    ELSE IF Head(keys) \notin DOMAIN msg THEN StringifyFields(msg, Tail(keys), first)
    ELSE (IF first THEN <<>> ELSE <<",">>)
         \o <<KeyByte(Head(keys)), ":">> \o StringifyValue(msg[Head(keys)])
         \o StringifyFields(msg, Tail(keys), FALSE)

Stringify(msg) == <<"{">> \o StringifyFields(msg, KeyOrder, TRUE) \o <<"}">>

\* encodeMessage
encodeMessage(msg) ==
    LET body == Stringify(msg)
    IN <<"Content-Length", ":", " ">> \o Decimal(Len(body)) \o <<CR, LF, CR, LF>> \o body

\* a value that JSON.parse rejects / that Number() maps to NaN
SyntaxError == [syntaxError |-> TRUE]
NaN == [nan |-> TRUE]

\* JSON.parse of one value byte
ParseValue(b) ==
    IF IsDigit(b) THEN Num(DigitValue(b))
    ELSE IF b = "null" THEN Null
    ELSE IF b = "\"m\"" THEN Str("m")
    ELSE IF b = "\"x\"" THEN Str("x")
    ELSE SyntaxError

ParseKey(b) ==
    IF \E i \in 1..Len(KeyOrder) : KeyByte(KeyOrder[i]) = b
    THEN KeyOrder[CHOOSE i \in 1..Len(KeyOrder) : KeyByte(KeyOrder[i]) = b]
    ELSE ""

\* JSON.parse of the members of an object: key : value { , key : value }
RECURSIVE ParseMembers(_, _)
ParseMembers(bytes, acc) ==
    IF Len(bytes) < 3 THEN SyntaxError
    ELSE LET k == ParseKey(bytes[1])
             v == ParseValue(bytes[3])
             acc2 == [f \in DOMAIN acc \cup {k} |-> IF f = k THEN v ELSE acc[f]]
         IN IF k = "" \/ bytes[2] # ":" \/ v = SyntaxError THEN SyntaxError
            ELSE IF Len(bytes) = 3 THEN acc2
            ELSE IF bytes[4] # "," THEN SyntaxError
            ELSE ParseMembers(SubSeq(bytes, 5, Len(bytes)), acc2)

\* JSON.parse of a body
Parse(bytes) ==
    IF Len(bytes) < 2 \/ bytes[1] # "{" \/ bytes[Len(bytes)] # "}" THEN SyntaxError
    ELSE IF Len(bytes) = 2 THEN EmptyObject
    ELSE ParseMembers(SubSeq(bytes, 2, Len(bytes) - 1), EmptyObject)

\* String.prototype.split on a separator of one or two bytes
RECURSIVE Split(_, _, _)
Split(bytes, sep, cur) ==
    IF bytes = <<>> THEN <<cur>>
    ELSE IF Len(bytes) >= Len(sep) /\ SubSeq(bytes, 1, Len(sep)) = sep
    THEN <<cur>> \o Split(SubSeq(bytes, Len(sep) + 1, Len(bytes)), sep, <<>>)
    ELSE Split(Tail(bytes), sep, Append(cur, Head(bytes)))

\* String.prototype.trim
RECURSIVE Trim(_)
Trim(bytes) ==
    IF bytes = <<>> THEN <<>>
    ELSE IF Head(bytes) = " " THEN Trim(Tail(bytes))
    ELSE IF bytes[Len(bytes)] = " " THEN Trim(SubSeq(bytes, 1, Len(bytes) - 1))
    ELSE bytes

RECURSIVE DigitsValue(_, _)
DigitsValue(bytes, acc) ==
    IF bytes = <<>> THEN acc
    ELSE DigitsValue(Tail(bytes), 10 * acc + DigitValue(Head(bytes)))

\* Number(text) for the trimmed texts the model's streams carry: the empty
\* text is 0, a run of digits with an optional minus sign is its value, a
\* quoted string or a lone sign is NaN (fractions, exponents and hexadecimal
\* literals, which Number also accepts, are outside the model's bytes)
Number(bytes) ==
    LET digits == IF bytes # <<>> /\ Head(bytes) = "-" THEN Tail(bytes) ELSE bytes
    IN IF bytes = <<>> THEN Num(0)
       ELSE IF digits = <<>> \/ \E i \in 1..Len(digits) : ~ IsDigit(digits[i]) THEN NaN
       ELSE IF Head(bytes) = "-" THEN Num(0 - DigitsValue(digits, 0))
       ELSE Num(DigitsValue(digits, 0))

\* parseContentLength: the first line whose name is content-length decides
RECURSIVE ContentLengthOf(_)
ContentLengthOf(lines) ==
    IF lines = <<>> THEN Null
    ELSE LET parts == Split(Head(lines), <<":">>, <<>>)
             k == parts[1]
             v == IF Len(parts) >= 2 THEN parts[2] ELSE <<>>
         IN IF k = <<>> \/ v = <<>> THEN ContentLengthOf(Tail(lines))
            ELSE IF k = <<"Content-Length">> \/ k = <<"content-length">>
            THEN (IF Number(Trim(v)) = NaN THEN Null ELSE Number(Trim(v)))
            ELSE ContentLengthOf(Tail(lines))

parseContentLength(header) == ContentLengthOf(Split(header, <<CR, LF>>, <<>>))

\* Buffer.allocUnsafe(n): n bytes of whatever the memory held; readMessages
\* reads a byte only after it has written it
allocUnsafe(n) == [i \in 1..n |-> "?"]

\* target[at ..] := source[from .. to), as Buffer.prototype.copy does
copy(source, target, at, from, to) ==
    [i \in 1..Len(target) |->
        IF i > at /\ i <= at + (to - from) THEN source[from + (i - at)] ELSE target[i]]

\* a reader that allocates the larger buffer without carrying the unread
\* bytes over
ensureCapacityDropping(d, incoming) ==
    LET slid == IF d.start > 0
                THEN [d EXCEPT !.buffer = copy(d.buffer, d.buffer, 0, d.start, d.end),
                               !.end = d.end - d.start, !.start = 0]
                ELSE d
        used == slid.end - slid.start
        doubled == Len(slid.buffer) * 2
        nextSize == IF doubled >= used + incoming THEN doubled ELSE used + incoming
    IN IF Len(d.buffer) - d.end >= incoming THEN d
       ELSE IF Len(slid.buffer) - slid.end >= incoming THEN slid
       ELSE [slid EXCEPT !.buffer = allocUnsafe(nextSize), !.end = used, !.start = 0]

\* readMessages.ensureCapacity
ensureCapacity(d, incoming) ==
    LET slid == IF d.start > 0
                THEN [d EXCEPT !.buffer = copy(d.buffer, d.buffer, 0, d.start, d.end),
                               !.end = d.end - d.start, !.start = 0]
                ELSE d
        used == slid.end - slid.start
        doubled == Len(slid.buffer) * 2
        nextSize == IF doubled >= used + incoming THEN doubled ELSE used + incoming
    IN IF Len(d.buffer) - d.end >= incoming THEN d
       ELSE IF Len(slid.buffer) - slid.end >= incoming THEN slid
       ELSE [slid EXCEPT !.buffer = copy(slid.buffer, allocUnsafe(nextSize), 0,
                                         slid.start, slid.end),
                         !.end = used, !.start = 0]

\* buffer.subarray(start, end).indexOf("\r\n\r\n"), -1 when absent
headerIndex(d) ==
    LET hits == {i \in 0..(d.end - d.start - 4) :
                    SubSeq(d.buffer, d.start + i + 1, d.start + i + 4) = <<CR, LF, CR, LF>>}
    IN IF hits = {} THEN -1 ELSE CHOOSE i \in hits : \A j \in hits : i <= j

\* buffer.toString("utf8", from, to): empty when to is not after from
toString(d, from, to) == IF to <= from THEN <<>> ELSE SubSeq(d.buffer, from + 1, to)

\* the while (true) loop of readMessages over the bytes buffered so far:
\* every complete message is yielded; a throw ends the generator
RECURSIVE decodeBuffered(_)
decodeBuffered(d) ==
    LET headerIdx == headerIndex(d)
        headerEnd == d.start + headerIdx
        contentLength == parseContentLength(toString(d, d.start, headerEnd))
        messageStart == headerEnd + 4
        messageEnd == messageStart + contentLength.num
        message == Parse(toString(d, messageStart, messageEnd))
        rest == IF messageEnd = d.end THEN [d EXCEPT !.start = 0, !.end = 0]
                ELSE [d EXCEPT !.start = messageEnd]
    IN IF headerIdx = -1 THEN d
       ELSE IF contentLength = Null THEN [d EXCEPT !.status = "error"]
       ELSE IF d.end < messageEnd THEN d
       ELSE IF message = SyntaxError THEN [rest EXCEPT !.status = "error"]
       ELSE decodeBuffered([rest EXCEPT !.out = Append(@, message)])

\* one turn of for await (const chunk of readable): the chunk is appended
\* to the buffer and the buffer is decoded
onChunk(d, chunk) ==
    LET d1 == ensureCapacity(d, Len(chunk))
        d2 == [d1 EXCEPT !.buffer = copy(chunk, d1.buffer, d1.end, 0, Len(chunk)),
                         !.end = d1.end + Len(chunk)]
    IN decodeBuffered(d2)

\* the readable ends: the for await loop is left and the generator returns
onEnd(d) == [d EXCEPT !.status = "ended"]

----------------------------------------------------------------------------
(* Inputs *)

\* params of a client's initialize: without and with the pull-diagnostic capability
NoPullParams == [capabilities |-> EmptyObject]
PullParams ==
    [capabilities |-> [textDocument |-> [diagnostic |-> [dynamicRegistration |-> FALSE]]]]

\* Client c numbers its initialize request c (so initializers differ in
\* their ids), and every client numbers its other request 42 (so the
\* clients collide).
InitializeOf(c, params) == [method |-> "initialize", id |-> Num(c), params |-> params]
HoverRequest == [method |-> "textDocument/hover", id |-> Num(42)]

ClientRequestsOf(c) == {InitializeOf(c, NoPullParams), HoverRequest}

\* what the server answers: a result or an error
ResponseBodies == {[result |-> Val(1)], [error |-> Val(2)]}

ServerResponses ==
    {WithId(b, Num(n)) : b \in ResponseBodies, n \in 1..MaxRequests}

\* ids the server gives its own requests
ServerIds == {Num(5), Str("a")}

ServerRequests ==
    {[method |-> "custom/ping", id |-> j, params |-> [value |-> Val(123)]] :
        j \in ServerIds}
    \cup {[method |-> "workspace/configuration", id |-> Num(7),
           params |-> [items |-> Arr(<<EmptyObject, EmptyObject, EmptyObject>>)]],
          [method |-> "workspace/configuration", id |-> Num(7), params |-> EmptyObject],
          [method |-> "workspace/configuration", id |-> Num(7),
           params |-> [items |-> Str("all")]],
          [method |-> "client/registerCapability", id |-> Num(7)],
          [method |-> "client/unregisterCapability", id |-> Num(7)]}

\* responses of a client: to a forwarded id, to a number the mux never
\* minted, and to a string id
ClientResponses ==
    {WithId(b, id) : b \in ResponseBodies,
                     id \in {Num(-f) : f \in 1..MaxForwarded} \cup {Num(42), Str("x")}}

\* documents the clients edit
Uris == {"file:///a.ts"}

DidOpen(u) ==
    [method |-> "textDocument/didOpen", params |-> [textDocument |-> [uri |-> Str(u)]]]
DidSave(u) ==
    [method |-> "textDocument/didSave", params |-> [textDocument |-> [uri |-> Str(u)]]]
DidClose(u) ==
    [method |-> "textDocument/didClose", params |-> [textDocument |-> [uri |-> Str(u)]]]

\* what a client of a bridged server sends: an initialize without or with
\* the pull-diagnostic capability, and file events
BridgeClientMessagesOf(c) ==
    {InitializeOf(c, NoPullParams), InitializeOf(c, PullParams)}
    \cup {DidOpen(u) : u \in Uris} \cup {DidSave(u) : u \in Uris}
    \cup {DidClose(u) : u \in Uris}

\* the server's diagnostic reports
DiagnosticReports ==
    {[kind |-> Str("full"), items |-> Arr(<<Val(3)>>)], [kind |-> Str("unchanged")]}

\* the bridged server answers initialize with a result and a pull with a report
BridgeServerResponses ==
    {[id |-> Num(n), result |-> r] : n \in 1..(MaxRequests + 1),
                                     r \in DiagnosticReports \cup {Val(1)}}

\* notifications of a client
Initialized == [method |-> "initialized", params |-> EmptyObject]
DidChangeConfiguration ==
    [method |-> "workspace/didChangeConfiguration", params |-> [settings |-> Null]]

ClientNotifications ==
    {Initialized, DidChangeConfiguration} \cup {DidOpen(u) : u \in Uris}

\* server-bound ids minted over the mux's lifetime: with the bridge, one
\* for the initialize and MaxRequests for the bridge's pulls
MaxServerIds(s) == IF usesDiagnosticsBridge(s) THEN MaxRequests + 1 ELSE MaxRequests

\* the counters and the queue stay within the bounds of the model
WithinBounds(s) ==
    /\ s.nextClientId <= MaxClients + 1
    /\ s.nextServerRequestId <= MaxServerIds(s) + 1
    /\ Len(s.queuedInitialize) <= MaxQueue
    /\ s.nextForwardedServerReqId >= -(MaxForwarded + 1)

----------------------------------------------------------------------------
(* Initial state: MuxState's field initialisers and constructor *)

InitFor(name) ==
    /\ serverSpec = name
    /\ nextClientId = 1
    /\ clients = <<>>
    /\ destroyed = {}
    /\ primaryClientId = NoClient
    /\ nextServerRequestId = 1
    /\ pendingClientRequests = <<>>
    /\ pendingInternalRequests = <<>>
    /\ clientSupportsPullDiagnostics = <<>>
    /\ nextForwardedServerReqId = -1
    /\ pendingServerRequests = <<>>
    /\ init = [state |-> "not_started"]
    /\ queuedInitialize = <<>>
    /\ diagnosticDebounce = <<>>
    /\ debounceTimers = {}
    /\ diagnosticsInFlight = {}
    /\ lastPublishedDiagnostics = <<>>
    /\ pendingDiagnosticsAfterInit = {}
    /\ initDone = FALSE
    /\ idleTimers = <<>>
    /\ emptyTicks = 0
    /\ lspKilled = FALSE
    /\ lspExited = FALSE
    /\ serverReaderDone = FALSE
    /\ exitCalls = <<>>
    /\ sentToServer = <<>>
    /\ sentToClient = [c \in ClientIdSpace |-> <<>>]
    /\ forwardedTo = <<>>
    /\ lspInitializeCount = 0
    /\ lspInitializeId = 0
    /\ lspInitializeAnswer = Null
    /\ publishedDiagnostics = <<>>
    /\ dispatched = [op |-> "init"]

\* no stream is being decoded
Unread == [status |-> "unread"]

\* no connect invocation is running
NotLaunching == [status |-> "none"]

\* no write is followed through its writer
Unbuffered == [status |-> "none"]

Init == InitFor("oxlint") /\ framing = Unread /\ launch = NotLaunching /\ flow = Unbuffered

----------------------------------------------------------------------------
(* Actions *)

\* net.createServer's connection callback: state.addClient(sock)
AddClient ==
    LET s == addClient(Cur)
    IN /\ WithinBounds(s)
       /\ Commit([s EXCEPT !.emptyTicks = 0])
       /\ dispatched' = [op |-> "addClient"]

\* a client's socket emits "close"
SocketClose(c) ==
    /\ c \in SeqToSet(clients)
    /\ Commit([onSocketClose(Cur, c) EXCEPT !.emptyTicks = 0])
    /\ dispatched' = [op |-> "close", client |-> c]

\* the read loop of a connected client hands a message to onClientMessage
ClientMessage(c, msg) ==
    /\ c \in SeqToSet(clients)
    /\ c \notin destroyed
    /\ LET s == onClientMessage(Cur, c, msg)
       IN WithinBounds(s) /\ Commit(s)
    /\ dispatched' = [op |-> "client", client |-> c, msg |-> msg]

\* the server's read loop hands a message to onServerMessage; the server
\* answers only requests it holds, and remembers its answer to initialize
ServerMessage(msg) ==
    /\ ~ serverReaderDone
    /\ IsResponse(msg) =>
          msg.id.num \in DOMAIN pendingClientRequests \cup DOMAIN pendingInternalRequests
    /\ LET s == onServerMessage(Cur, msg)
           body == [result |-> Field(msg, "result"), error |-> Field(msg, "error")]
       IN /\ WithinBounds(s)
          /\ Commit([s EXCEPT !.lspInitializeAnswer =
                        IF @ = Null /\ IsResponse(msg)
                           /\ msg.id = Num(lspInitializeId)
                        THEN body ELSE @])
    /\ dispatched' = [op |-> "server", msg |-> msg]

\* The client-origin path: connections, client requests, server responses.
Next ==
    \/ AddClient
    \/ \E c \in ClientIdSpace : SocketClose(c)
    \/ \E c \in ClientIdSpace : \E msg \in ClientRequestsOf(c) : ClientMessage(c, msg)
    \/ \E msg \in ServerResponses : ServerMessage(msg)

Spec == Init /\ [][Next]_vars

\* The server-origin path: connections, server requests, client responses.
NextServerOrigin ==
    \/ AddClient
    \/ \E c \in ClientIdSpace : SocketClose(c)
    \/ \E msg \in ServerRequests : ServerMessage(msg)
    \/ \E c \in ClientIdSpace : \E msg \in ClientResponses : ClientMessage(c, msg)

SpecServerOrigin == Init /\ [][NextServerOrigin]_vars

\* The notification path: connections, initialize, client notifications,
\* the server's responses.
NextNotifications ==
    \/ AddClient
    \/ \E c \in ClientIdSpace : SocketClose(c)
    \/ \E c \in ClientIdSpace :
          \E msg \in ClientNotifications \cup {InitializeOf(c, NoPullParams)} :
             ClientMessage(c, msg)
    \/ \E msg \in ServerResponses : ServerMessage(msg)

SpecNotifications == Init /\ [][NextNotifications]_vars

\* readMessages throws in the server read loop
ServerFramingError ==
    /\ ~ serverReaderDone
    /\ Commit(onServerReadError(Cur))
    /\ dispatched' = [op |-> "serverFramingError"]

\* readMessages throws in the read loop of client c
ClientFramingError(c) ==
    /\ c \in SeqToSet(clients)
    /\ c \notin destroyed
    /\ Commit(onClientReadError(Cur, c))
    /\ dispatched' = [op |-> "clientFramingError", client |-> c]

\* Client stream errors: connections, client requests, and framing errors
\* on the clients' streams.
NextErrors ==
    \/ AddClient
    \/ \E c \in ClientIdSpace : SocketClose(c)
    \/ \E c \in ClientIdSpace : \E msg \in ClientRequestsOf(c) : ClientMessage(c, msg)
    \/ \E c \in ClientIdSpace : ClientFramingError(c)

SpecErrors == Init /\ [][NextErrors]_vars

\* one unit of time passes: no timer is due, every armed timer gets closer
Tick ==
    /\ \A i \in 1..Len(idleTimers) : idleTimers[i] > 0
    /\ Commit([Cur EXCEPT
                 !.idleTimers = [i \in 1..Len(@) |-> @[i] - 1],
                 !.emptyTicks = IF clients # <<>> THEN 0
                                ELSE IF @ < IdleTicks THEN @ + 1 ELSE @])
    /\ dispatched' = [op |-> "tick"]

\* the earliest idle timer is due and its callback runs
IdleTimeout ==
    /\ idleTimers # <<>>
    /\ Head(idleTimers) = 0
    /\ Commit(onIdleTimeout(Cur))
    /\ dispatched' = [op |-> "idleTimeout"]

\* what the child's "exit" event carries: an exit code, or the signal
\* that ended the child
ExitEvents ==
    {[code |-> Num(0), signal |-> Null], [code |-> Num(1), signal |-> Null],
     [code |-> Null, signal |-> Str("SIGTERM")]}

\* the child exits (killed or by itself) and its "exit" handler runs
LspExit(ev) ==
    /\ ~ lspExited
    /\ Commit(onLspExit(Cur, ev.code, ev.signal))
    /\ dispatched' = [op |-> "lspExit", code |-> ev.code, signal |-> ev.signal]

\* The lifecycle: connections, time, the idle timers, the child's exit, a
\* framing error on the child's output.
NextIdle ==
    \/ AddClient
    \/ \E c \in ClientIdSpace : SocketClose(c)
    \/ Tick
    \/ IdleTimeout
    \/ \E ev \in ExitEvents : LspExit(ev)
    \/ ServerFramingError

SpecIdle == Init /\ [][NextIdle]_vars

\* the debounce timer of a URI fires: the callback of schedule's setTimeout
DebounceFires(u) ==
    \E t \in debounceTimers :
        /\ t.uri = u
        /\ LET s == request([Cur EXCEPT !.debounceTimers = @ \ {t},
                                        !.diagnosticDebounce = MapDelete(@, u)], u)
           IN WithinBounds(s) /\ Commit(s)
        /\ dispatched' = [op |-> "debounce", uri |-> u]

\* the bridged server answers a pull with a report, anything else with a result
AnswersInKind(msg) ==
    (msg.id.num \in DOMAIN pendingInternalRequests) = (msg.result \in DiagnosticReports)

BridgeServerMessage(msg) == AnswersInKind(msg) /\ ServerMessage(msg)

InitBridge == InitFor("tsgo") /\ framing = Unread /\ launch = NotLaunching /\ flow = Unbuffered

\* The diagnostics bridge (tsgo): connections, initialize with and without
\* the pull capability, file events, debounce timers, the server's answers.
NextBridge ==
    \/ AddClient
    \/ \E c \in ClientIdSpace : SocketClose(c)
    \/ \E c \in ClientIdSpace : \E msg \in BridgeClientMessagesOf(c) : ClientMessage(c, msg)
    \/ \E u \in Uris : DebounceFires(u)
    \/ \E msg \in BridgeServerResponses : BridgeServerMessage(msg)

SpecBridge == InitBridge /\ [][NextBridge]_vars

\* params of an initialize sent to a bridged server: no capabilities, other
\* capabilities only, the pull capability as the hook would write it, and
\* the pull capability with a value of the client's own
InitializeParams ==
    { NoPullParams,
      [rootUri |-> Str("file:///p"), capabilities |-> Null],
      [rootUri |-> Str("file:///p"),
       capabilities |-> [workspace |-> EmptyObject,
                         textDocument |-> [hover |-> EmptyObject]]],
      PullParams,
      [rootUri |-> Str("file:///p"),
       capabilities |-> [textDocument |-> [hover |-> EmptyObject,
                                           diagnostic |-> [dynamicRegistration |-> TRUE]]]] }

\* the initialize requests of client c, one of them without params
TsgoInitializesOf(c) ==
    {InitializeOf(c, p) : p \in InitializeParams}
    \cup {[method |-> "initialize", id |-> Num(c)]}

\* Initialization through the tsgo hook: connections, initialize requests
\* of every shape, the server's answers.
NextTsgoInit ==
    \/ AddClient
    \/ \E c \in ClientIdSpace : SocketClose(c)
    \/ \E c \in ClientIdSpace : \E msg \in TsgoInitializesOf(c) : ClientMessage(c, msg)
    \/ \E msg \in ServerResponses : ServerMessage(msg)

SpecTsgoInit == InitBridge /\ [][NextTsgoInit]_vars

\* documents opened while the server is still initializing
QueuedUris == {"file:///a.ts", "file:///queued.ts"}

\* what a client sends around init-done: an initialize without the pull
\* capability and file events for two documents
PreInitClientMessagesOf(c) ==
    {InitializeOf(c, NoPullParams)} \cup {DidOpen(u) : u \in QueuedUris}

\* The bridge around init-done (tsgo): file events for two documents
\* before and after the server's initialize response.
NextPreInit ==
    \/ AddClient
    \/ \E c \in ClientIdSpace : SocketClose(c)
    \/ \E c \in ClientIdSpace : \E msg \in PreInitClientMessagesOf(c) : ClientMessage(c, msg)
    \/ \E u \in QueuedUris : DebounceFires(u)
    \/ \E msg \in BridgeServerResponses : BridgeServerMessage(msg)

SpecPreInit == InitBridge /\ [][NextPreInit]_vars

\* what a client sends about two documents: an initialize without the pull
\* capability, file events and didClose
DidCloseClientMessagesOf(c) ==
    PreInitClientMessagesOf(c) \cup {DidClose(u) : u \in QueuedUris}

\* The bridge with two documents that are opened and closed (tsgo).
NextDidClose ==
    \/ AddClient
    \/ \E c \in ClientIdSpace : \E msg \in DidCloseClientMessagesOf(c) : ClientMessage(c, msg)
    \/ \E u \in QueuedUris : DebounceFires(u)
    \/ \E msg \in BridgeServerResponses : BridgeServerMessage(msg)

SpecDidClose == InitBridge /\ [][NextDidClose]_vars

\* what a client of a bridged server sends when every table is in use: an
\* initialize without the pull capability, a request and a file event
IdsClientMessagesOf(c) ==
    {InitializeOf(c, NoPullParams), HoverRequest} \cup {DidOpen(u) : u \in Uris}

\* a request of the server that the mux forwards
PingRequest == [method |-> "custom/ping", id |-> Num(5), params |-> [value |-> Val(123)]]

\* a client that keeps to the protocol: nothing but initialize is sent
\* before the initialize was answered
InitializedClientMessage(c, msg) ==
    /\ Method(msg) # "initialize" => init.state = "done"
    /\ ClientMessage(c, msg)

\* The three id spaces in use at once (tsgo): requests of clients, pulls
\* of the bridge, forwarded requests of the server, the server's answers.
NextIds ==
    \/ AddClient
    \/ \E c \in ClientIdSpace : \E msg \in IdsClientMessagesOf(c) : InitializedClientMessage(c, msg)
    \/ \E u \in Uris : DebounceFires(u)
    \/ \E msg \in BridgeServerResponses : BridgeServerMessage(msg)
    \/ ServerMessage(PingRequest)

SpecIds == InitBridge /\ [][NextIds]_vars

\* what a client sends around a file event: an initialize without the pull
\* capability, then opening and closing of documents
EventsClientMessagesOf(c) ==
    {InitializeOf(c, NoPullParams)} \cup {DidOpen(u) : u \in Uris} \cup {DidClose(u) : u \in Uris}

\* File events of initialized clients, debounce timers, the server's answers.
NextEvents ==
    \/ AddClient
    \/ \E c \in ClientIdSpace : \E msg \in EventsClientMessagesOf(c) : InitializedClientMessage(c, msg)
    \/ \E u \in Uris : DebounceFires(u)
    \/ \E msg \in BridgeServerResponses : BridgeServerMessage(msg)

SpecEvents == InitBridge /\ [][NextEvents]_vars

\* every debounce timer expires (setTimeout, framing.ts:131) and the server
\* answers every request
EventsFairness ==
    /\ \A u \in Uris : WF_vars(DebounceFires(u))
    /\ \A msg \in BridgeServerResponses : WF_vars(BridgeServerMessage(msg))

SpecEventsFair == SpecEvents /\ EventsFairness

\* notifications of the server: without an id member and with a null id
ServerNotifications ==
    {[method |-> "window/logMessage", params |-> [type |-> Val(3), message |-> Str("ready")]],
     [method |-> "$/progress", id |-> Null, params |-> [token |-> Val(1)]]}

\* The server's notifications: connections, requests of clients and of
\* the server that fill the pending tables, notifications of the server.
NextBroadcast ==
    \/ AddClient
    \/ \E c \in ClientIdSpace : SocketClose(c)
    \/ \E c \in ClientIdSpace : ClientMessage(c, HoverRequest)
    \/ \E msg \in ServerNotifications \cup {PingRequest} : ServerMessage(msg)

SpecBroadcast == Init /\ [][NextBroadcast]_vars

----------------------------------------------------------------------------
(* readMessages over one stream, delivered in chunks of any size *)

FramingMessages ==
    { [id |-> Num(1)],
      [method |-> Str("m"), params |-> Null],
      [id |-> Num(2), method |-> Str("x"), params |-> Null] }

MessageSequences == UNION {[1..n -> FramingMessages] : n \in 0..MaxMessages}

\* the concatenation of the encodeMessage outputs
RECURSIVE encodeAll(_)
encodeAll(msgs) == IF msgs = <<>> THEN <<>> ELSE encodeMessage(Head(msgs)) \o encodeAll(Tail(msgs))

\* header blocks without a usable Content-Length, each followed by a body
MalformedStreams ==
    { <<"X-Other", ":", " ", "5", CR, LF, CR, LF>> \o Stringify([id |-> Num(1)]),
      <<"Content-Length", ":", " ", "\"x\"", CR, LF, CR, LF>> \o Stringify([id |-> Num(1)]),
      <<"Content-Length", ":", CR, LF, CR, LF>> \o Stringify([id |-> Num(1)]),
      <<"Content-Length", ":", " ", "-", "5", CR, LF, CR, LF>> \o Stringify([id |-> Num(1)]) }

\* streams that end after a header, inside the body it declares
TruncatedStreams ==
    { encodeAll(msgs) \o SubSeq(encodeMessage(m), 1, Len(encodeMessage(m)) - cut) :
        msgs \in {<<>>, <<[id |-> Num(1)]>>}, m \in FramingMessages, cut \in 1..2 }

\* the reader before the first chunk: an empty buffer of the initial capacity
reader(kind, sent, wire) ==
    [status |-> "reading", kind |-> kind, sent |-> sent, wire |-> wire,
     buffer |-> allocUnsafe(FrameBufferSize), start |-> 0, end |-> 0, out |-> <<>>]

FramingInputs ==
    {reader("valid", msgs, encodeAll(msgs)) : msgs \in MessageSequences}
    \cup {reader("malformed", <<>>, wire) : wire \in MalformedStreams}
    \cup {reader("truncated", <<>>, wire) : wire \in TruncatedStreams}

InitFraming ==
    InitFor("oxlint") /\ framing \in FramingInputs /\ launch = NotLaunching /\ flow = Unbuffered

\* the stream delivers its next n bytes as one chunk
Chunk(n) ==
    /\ framing.status = "reading"
    /\ n <= Len(framing.wire)
    /\ framing' = onChunk([framing EXCEPT !.wire = SubSeq(@, n + 1, Len(@))],
                          SubSeq(framing.wire, 1, n))
    /\ UNCHANGED <<muxVars, launch, flow>>

\* the stream ends once every byte has been delivered
End ==
    /\ framing.status = "reading"
    /\ framing.wire = <<>>
    /\ framing' = onEnd(framing)
    /\ UNCHANGED <<muxVars, launch, flow>>

\* the longest stream of the inputs bounds the size of a chunk
MaxChunk == MaxMessages * Len(encodeMessage([id |-> Num(2), method |-> Str("x"), params |-> Null]))

NextFraming ==
    \/ \E n \in 1..MaxChunk : Chunk(n)
    \/ End

SpecFraming == InitFraming /\ [][NextFraming]_vars

----------------------------------------------------------------------------
(* cli/connect and runDaemon: several connect invocations for one          *)
(* (project root, server name) pair, outside test mode.  Every await of    *)
(* ensureDaemonRunning and of runDaemon is a point where another process   *)
(* may run; the file system holds the lock file and the socket file.       *)

Connects == 1..MaxConnects

\* the socket path: no file, the file a dead daemon left behind, or the
\* file on which a daemon listens
Absent == [state |-> "absent"]
Stale == [state |-> "stale"]
BoundBy(d) == [state |-> "bound", daemon |-> d]

\* canConnect(socketPath): a daemon listens on the file at the path
canConnect(l) == l.socketFile.state = "bound"

ConnectAt(l, i, pc) == [l EXCEPT !.connects[i].pc = pc]
DaemonAt(l, d, pc) == [l EXCEPT !.daemons[d].pc = pc]

\* ensureDaemonRunning: if (await canConnect(socketPath)) return
ensureCanConnect(l, i) ==
    IF canConnect(l) THEN ConnectAt(l, i, "proxy") ELSE ConnectAt(l, i, "open")

\* ensureDaemonRunning: fs.open(lockPath, "wx"), which fails if the file exists
openLock(l, i) ==
    IF l.lock THEN ConnectAt(l, i, "wait")
    ELSE ConnectAt([l EXCEPT !.lock = TRUE], i, "spawnDaemon")

\* spawnDaemon: a daemon process is started; it begins with runDaemon
spawnDaemon(l, i) ==
    ConnectAt([l EXCEPT !.daemons = Append(@, [pc |-> "exists", lsp |-> FALSE])],
              i, "unlock")

\* ensureDaemonRunning: finally { lockFd.close(); fs.rm(lockPath) }
releaseLock(l, i) == ConnectAt([l EXCEPT !.lock = FALSE], i, "wait")

\* ensureDaemonRunning: the wait loop sees the daemon
waitConnected(l, i) == ConnectAt(l, i, "proxy")

\* ensureDaemonRunning: five seconds have passed without a daemon to connect to
waitTimedOut(l, i) == ConnectAt(l, i, "failed")

\* proxyStdioToSocket: the connection goes to whoever listens on the path
proxyStdioToSocket(l, i) ==
    IF canConnect(l)
    THEN [l EXCEPT !.connects[i] = [pc |-> "connected", daemon |-> l.socketFile.daemon]]
    ELSE ConnectAt(l, i, "failed")

\* runDaemon: if (await exists(socketPath))
daemonExists(l, d) ==
    IF l.socketFile.state # "absent" THEN DaemonAt(l, d, "canConnect")
    ELSE DaemonAt(l, d, "spawnLsp")

\* runDaemon: const alive = await canConnect(socketPath)
daemonCanConnect(l, d) ==
    IF canConnect(l) THEN DaemonAt(l, d, "spawnLsp") ELSE DaemonAt(l, d, "rm")

\* runDaemon: if (!alive) await fs.rm(socketPath, { force: true })
daemonRemoveSocket(l, d) == DaemonAt([l EXCEPT !.socketFile = Absent], d, "spawnLsp")

\* runDaemon: spawnLsp, new MuxState, startServerReadLoop
daemonSpawnLsp(l, d) == [l EXCEPT !.daemons[d] = [pc |-> "listen", lsp |-> TRUE]]

\* runDaemon: serverSocket.listen(socketPath), which fails with EADDRINUSE
\* if a file is at the path
daemonListen(l, d) ==
    IF l.socketFile.state = "absent"
    THEN DaemonAt([l EXCEPT !.socketFile = BoundBy(d)], d, "listening")
    ELSE DaemonAt(l, d, "failed")

\* the connect invocations are about to check for a daemon; none listens
LaunchInputs ==
    {[lock |-> FALSE, socketFile |-> f, daemons |-> <<>>,
      connects |-> [i \in Connects |-> [pc |-> "canConnect", daemon |-> 0]]] :
        f \in {Absent, Stale}}

InitLaunch ==
    InitFor("oxlint") /\ framing = Unread /\ launch \in LaunchInputs /\ flow = Unbuffered

EnsureCanConnect(i) ==
    /\ launch.connects[i].pc = "canConnect"
    /\ launch' = ensureCanConnect(launch, i)
    /\ UNCHANGED <<muxVars, framing, flow>>

OpenLock(i) ==
    /\ launch.connects[i].pc = "open"
    /\ launch' = openLock(launch, i)
    /\ UNCHANGED <<muxVars, framing, flow>>

SpawnDaemon(i) ==
    /\ launch.connects[i].pc = "spawnDaemon"
    /\ launch' = spawnDaemon(launch, i)
    /\ UNCHANGED <<muxVars, framing, flow>>

ReleaseLock(i) ==
    /\ launch.connects[i].pc = "unlock"
    /\ launch' = releaseLock(launch, i)
    /\ UNCHANGED <<muxVars, framing, flow>>

WaitConnected(i) ==
    /\ launch.connects[i].pc = "wait"
    /\ canConnect(launch)
    /\ launch' = waitConnected(launch, i)
    /\ UNCHANGED <<muxVars, framing, flow>>

WaitTimedOut(i) ==
    /\ launch.connects[i].pc = "wait"
    /\ ~ canConnect(launch)
    /\ launch' = waitTimedOut(launch, i)
    /\ UNCHANGED <<muxVars, framing, flow>>

ProxyStdioToSocket(i) ==
    /\ launch.connects[i].pc = "proxy"
    /\ launch' = proxyStdioToSocket(launch, i)
    /\ UNCHANGED <<muxVars, framing, flow>>

DaemonExists(d) ==
    /\ d \in DOMAIN launch.daemons
    /\ launch.daemons[d].pc = "exists"
    /\ launch' = daemonExists(launch, d)
    /\ UNCHANGED <<muxVars, framing, flow>>

DaemonCanConnect(d) ==
    /\ d \in DOMAIN launch.daemons
    /\ launch.daemons[d].pc = "canConnect"
    /\ launch' = daemonCanConnect(launch, d)
    /\ UNCHANGED <<muxVars, framing, flow>>

DaemonRemoveSocket(d) ==
    /\ d \in DOMAIN launch.daemons
    /\ launch.daemons[d].pc = "rm"
    /\ launch' = daemonRemoveSocket(launch, d)
    /\ UNCHANGED <<muxVars, framing, flow>>

DaemonSpawnLsp(d) ==
    /\ d \in DOMAIN launch.daemons
    /\ launch.daemons[d].pc = "spawnLsp"
    /\ launch' = daemonSpawnLsp(launch, d)
    /\ UNCHANGED <<muxVars, framing, flow>>

DaemonListen(d) ==
    /\ d \in DOMAIN launch.daemons
    /\ launch.daemons[d].pc = "listen"
    /\ launch' = daemonListen(launch, d)
    /\ UNCHANGED <<muxVars, framing, flow>>

\* Concurrent connect invocations and the daemons they start, in any
\* interleaving of their awaits.
NextLaunch ==
    \/ \E i \in Connects :
          \/ EnsureCanConnect(i) \/ OpenLock(i) \/ SpawnDaemon(i) \/ ReleaseLock(i)
          \/ WaitConnected(i) \/ WaitTimedOut(i) \/ ProxyStdioToSocket(i)
    \/ \E d \in Connects :
          \/ DaemonExists(d) \/ DaemonCanConnect(d) \/ DaemonRemoveSocket(d)
          \/ DaemonSpawnLsp(d) \/ DaemonListen(d)

SpecLaunch == InitLaunch /\ [][NextLaunch]_vars

----------------------------------------------------------------------------
(* BufferedWriter and the backpressure helpers of MuxState.  What is       *)
(* written is left out where only the pauses matter: every buffer is the   *)
(* same there.  What stream.write returns and how much a drained stream    *)
(* accepts are inputs of the steps.  socketPaused and stdoutPaused are the *)
(* streams' own state, set by socket.pause() / resume() and                *)
(* lsp.stdout.pause() / resume().                                          *)

\* new BufferedWriter(stream, hooks)
newWriter == [queue |-> <<>>, waitingForDrain |-> FALSE, paused |-> FALSE]

\* BufferedWriter.write; backpressure tells whether onBackpressure was
\* called, out is what was handed to stream.write
write(w, buf, ok) ==
    IF w.waitingForDrain
    THEN [writer |-> [w EXCEPT !.queue = Append(@, buf), !.paused = TRUE],
          backpressure |-> ~ w.paused, out |-> <<>>]
    ELSE IF ~ ok
    THEN [writer |-> [w EXCEPT !.waitingForDrain = TRUE, !.paused = TRUE],
          backpressure |-> ~ w.paused, out |-> <<buf>>]
    ELSE [writer |-> w, backpressure |-> FALSE, out |-> <<buf>>]

\* a writer whose flush never leaves the paused state
flushKeepingPaused(w, accepted) ==
    IF accepted < Len(w.queue)
    THEN [writer |-> [w EXCEPT !.queue = SubSeq(@, accepted + 2, Len(@)),
                               !.waitingForDrain = TRUE, !.paused = TRUE],
          backpressure |-> ~ w.paused, resume |-> FALSE,
          out |-> SubSeq(w.queue, 1, accepted + 1)]
    ELSE [writer |-> [w EXCEPT !.queue = <<>>, !.waitingForDrain = FALSE],
          backpressure |-> FALSE, resume |-> FALSE, out |-> w.queue]

\* a writer whose flush takes the newest buffer of the queue first
RECURSIVE Reverse(_)
Reverse(q) == IF q = <<>> THEN <<>> ELSE Append(Reverse(Tail(q)), Head(q))

flushNewestFirst(w, accepted) ==
    LET queue == Reverse(w.queue)
    IN IF accepted < Len(queue)
       THEN [writer |-> [w EXCEPT !.queue = Reverse(SubSeq(queue, accepted + 2, Len(queue))),
                                  !.waitingForDrain = TRUE, !.paused = TRUE],
             backpressure |-> ~ w.paused, resume |-> FALSE,
             out |-> SubSeq(queue, 1, accepted + 1)]
       ELSE [writer |-> [w EXCEPT !.queue = <<>>, !.waitingForDrain = FALSE,
                                  !.paused = FALSE],
             backpressure |-> FALSE, resume |-> w.paused, out |-> queue]

\* BufferedWriter.flush, run by the stream's "drain": the stream accepts
\* the first `accepted` buffers of the queue and, if more are queued,
\* returns false for the next one; out is what was handed to stream.write
flush(w, accepted) ==
    IF accepted < Len(w.queue)
    THEN [writer |-> [w EXCEPT !.queue = SubSeq(@, accepted + 2, Len(@)),
                               !.waitingForDrain = TRUE, !.paused = TRUE],
          backpressure |-> ~ w.paused, resume |-> FALSE,
          out |-> SubSeq(w.queue, 1, accepted + 1)]
    ELSE [writer |-> [w EXCEPT !.queue = <<>>, !.waitingForDrain = FALSE, !.paused = FALSE],
          backpressure |-> FALSE, resume |-> w.paused, out |-> w.queue]

\* MuxState.pauseLspReads
pauseLspReads(f) ==
    IF f.lspReadsPaused THEN f
    ELSE [f EXCEPT !.lspReadsPaused = TRUE, !.stdoutPaused = TRUE]

\* a mux that resumes the server's output as soon as one writer has drained
resumeLspReadsAtOnce(f) ==
    IF ~ f.lspReadsPaused THEN f
    ELSE [f EXCEPT !.lspReadsPaused = FALSE, !.stdoutPaused = FALSE]

\* MuxState.resumeLspReads
resumeLspReads(f) ==
    IF ~ f.lspReadsPaused THEN f
    ELSE IF f.backpressuredClients # {} THEN f
    ELSE [f EXCEPT !.lspReadsPaused = FALSE, !.stdoutPaused = FALSE]

\* MuxState.markClientBackpressure
markClientBackpressure(f, clientId) ==
    IF clientId \in f.backpressuredClients THEN f
    ELSE pauseLspReads([f EXCEPT !.backpressuredClients = @ \cup {clientId}])

\* MuxState.clearClientBackpressure
clearClientBackpressure(f, clientId) ==
    IF clientId \notin f.backpressuredClients THEN f
    ELSE resumeLspReads([f EXCEPT !.backpressuredClients = @ \ {clientId}])

\* MuxState.pauseClientReads
pauseClientReads(f) ==
    IF f.clientReadsPaused THEN f
    ELSE [f EXCEPT !.clientReadsPaused = TRUE, !.socketPaused = @ \cup f.clients]

\* MuxState.resumeClientReads
resumeClientReads(f) ==
    IF ~ f.clientReadsPaused THEN f
    ELSE [f EXCEPT !.clientReadsPaused = FALSE, !.socketPaused = @ \ f.clients]

\* a buffer whose content does not matter
SomeBuffer == "bytes"

\* lspWriter.write with its hooks (MuxState constructor)
lspWriterWrite(f, ok) ==
    LET r == write(f.lspWriter, SomeBuffer, ok)
        f1 == [f EXCEPT !.lspWriter = r.writer]
    IN IF r.backpressure THEN pauseClientReads(f1) ELSE f1

\* lsp.stdin's "drain": lspWriter.flush with its hooks
lspWriterFlush(f, accepted) ==
    LET r == flush(f.lspWriter, accepted)
        f1 == [f EXCEPT !.lspWriter = r.writer]
    IN IF r.backpressure THEN pauseClientReads(f1)
       ELSE IF r.resume THEN resumeClientReads(f1) ELSE f1

\* conn.write of a client: its writer's write with the hooks of addClient
clientWriterWrite(f, clientId, ok) ==
    LET r == write(f.clientWriters[clientId], SomeBuffer, ok)
        f1 == [f EXCEPT !.clientWriters[clientId] = r.writer]
    IN IF r.backpressure THEN markClientBackpressure(f1, clientId) ELSE f1

\* a client socket's "drain": its writer's flush with the hooks of addClient
clientWriterFlush(f, clientId, accepted) ==
    LET r == flush(f.clientWriters[clientId], accepted)
        f1 == [f EXCEPT !.clientWriters[clientId] = r.writer]
    IN IF r.backpressure THEN markClientBackpressure(f1, clientId)
       ELSE IF r.resume THEN clearClientBackpressure(f1, clientId) ELSE f1

\* a message is written to each client of a sequence; oks holds the
\* clients whose stream.write returns true
RECURSIVE writeToClients(_, _, _)
writeToClients(f, targets, oks) ==
    IF targets = <<>> THEN f
    ELSE writeToClients(clientWriterWrite(f, Head(targets), Head(targets) \in oks),
                        Tail(targets), oks)

\* MuxState.addClient: the writer and the entry of the client set
acceptClient(f) ==
    LET clientId == f.nextClientId
    IN [f EXCEPT !.nextClientId = @ + 1,
                 !.clients = @ \cup {clientId},
                 !.clientWriters = MapSet(@, clientId, newWriter)]

\* a close handler that leaves the departing client's congestion on record
closeClientKeepingBackpressure(f, clientId) ==
    [f EXCEPT !.clients = @ \ {clientId},
              !.clientWriters = MapDelete(@, clientId),
              !.socketPaused = @ \ {clientId}]

\* the socket's "close" handler of addClient
closeClient(f, clientId) ==
    clearClientBackpressure(
        [f EXCEPT !.clients = @ \ {clientId},
                  !.clientWriters = MapDelete(@, clientId),
                  !.socketPaused = @ \ {clientId}],
        clientId)

\* the mux after construction: no client, nothing buffered, nothing paused
Flowing ==
    [nextClientId |-> 1, clients |-> {}, clientWriters |-> <<>>,
     lspWriter |-> newWriter, backpressuredClients |-> {},
     lspReadsPaused |-> FALSE, clientReadsPaused |-> FALSE,
     socketPaused |-> {}, stdoutPaused |-> FALSE,
     last |-> [op |-> "init", client |-> 0, resumed |-> {}]]

InitFlow ==
    InitFor("oxlint") /\ framing = Unread /\ launch = NotLaunching /\ flow = Flowing

\* every queue stays within the bound of the model
FlowWithinBounds(f) ==
    /\ Len(f.lspWriter.queue) <= MaxBuffered
    /\ \A c \in f.clients : Len(f.clientWriters[c].queue) <= MaxBuffered

\* the step is recorded with the directions whose reads it resumed
FlowStep(f, event) ==
    /\ FlowWithinBounds(f)
    /\ flow' = [f EXCEPT !.last =
                   [op |-> event.op, client |-> event.client,
                    resumed |-> {d \in {"clients"} : flow.clientReadsPaused /\ ~ f.clientReadsPaused}
                                \cup {d \in {"server"} : flow.lspReadsPaused /\ ~ f.lspReadsPaused}]]
    /\ UNCHANGED <<muxVars, framing, launch>>

\* a socket connects
FlowAccept ==
    /\ flow.nextClientId <= MaxClients
    /\ FlowStep(acceptClient(flow), [op |-> "accept", client |-> 0])

\* a client's socket closes
FlowClose(c) ==
    /\ c \in flow.clients
    /\ FlowStep(closeClient(flow, c), [op |-> "close", client |-> c])

\* a message is read from a client whose socket is not paused and is
\* written to the server
FlowClientToServer(c, ok) ==
    /\ c \in flow.clients /\ c \notin flow.socketPaused
    /\ FlowStep(lspWriterWrite(flow, ok), [op |-> "client", client |-> c])

\* a message is read from a client whose socket is not paused and is
\* answered by the mux itself (an initialize after init is done)
FlowClientAnswered(c, ok) ==
    /\ c \in flow.clients /\ c \notin flow.socketPaused
    /\ FlowStep(clientWriterWrite(flow, c, ok), [op |-> "client", client |-> c])

\* a message is read from the server's output, which is not paused, and
\* is written to one client or to every client
FlowServerToClients(targets, oks) ==
    /\ ~ flow.stdoutPaused
    /\ targets # {} /\ targets \subseteq flow.clients
    /\ Cardinality(targets) = 1 \/ targets = flow.clients
    /\ oks \subseteq targets
    /\ FlowStep(writeToClients(flow, SetToSeq(targets), oks), [op |-> "server", client |-> 0])

\* a request is read from the server's output, which is not paused, and
\* is answered by the mux itself
FlowServerAnswered(ok) ==
    /\ ~ flow.stdoutPaused
    /\ FlowStep(lspWriterWrite(flow, ok), [op |-> "server", client |-> 0])

\* the server's input emits "drain"
FlowServerDrain(accepted) ==
    /\ flow.lspWriter.waitingForDrain
    /\ accepted <= Len(flow.lspWriter.queue)
    /\ FlowStep(lspWriterFlush(flow, accepted), [op |-> "drain", client |-> 0])

\* a client's socket emits "drain"
FlowClientDrain(c, accepted) ==
    /\ c \in flow.clients
    /\ flow.clientWriters[c].waitingForDrain
    /\ accepted <= Len(flow.clientWriters[c].queue)
    /\ FlowStep(clientWriterFlush(flow, c, accepted), [op |-> "drain", client |-> c])

\* Backpressure: connections, messages in both directions, drains.
NextFlow ==
    \/ FlowAccept
    \/ \E c \in ClientIdSpace : FlowClose(c)
    \/ \E c \in ClientIdSpace, ok \in BOOLEAN : FlowClientToServer(c, ok)
    \/ \E c \in ClientIdSpace, ok \in BOOLEAN : FlowClientAnswered(c, ok)
    \/ \E targets \in SUBSET ClientIdSpace, oks \in SUBSET ClientIdSpace :
          FlowServerToClients(targets, oks)
    \/ \E ok \in BOOLEAN : FlowServerAnswered(ok)
    \/ \E accepted \in 0..MaxBuffered : FlowServerDrain(accepted)
    \/ \E c \in ClientIdSpace, accepted \in 0..MaxBuffered : FlowClientDrain(c, accepted)

SpecFlow == InitFlow /\ [][NextFlow]_vars

\* every congested stream eventually emits "drain": the server and the
\* clients keep consuming what was written to them
DrainFairness ==
    /\ WF_vars(\E accepted \in 0..MaxBuffered : FlowServerDrain(accepted))
    /\ \A c \in ClientIdSpace :
          WF_vars(\E accepted \in 0..MaxBuffered : FlowClientDrain(c, accepted))

SpecFlowFair == InitFlow /\ [][NextFlow]_vars /\ DrainFairness

----------------------------------------------------------------------------
(* The server-bound writer with the order of its buffers observed: consumed *)
(* holds the messages in the order the mux dispatched them, stdin what      *)
(* lsp.stdin was handed, in the order of the stream.write calls.            *)

\* the n-th message of a client, encoded
MessageOf(c, n) == [client |-> c, n |-> n]

\* the buffers of one client
OfClient(q, c) == SelectSeq(q, LAMBDA b : b.client = c)

Ordered ==
    [lspWriter |-> newWriter, stdin |-> <<>>, consumed |-> <<>>,
     last |-> [op |-> "init", flushed |-> 0]]

InitFifo ==
    InitFor("oxlint") /\ framing = Unread /\ launch = NotLaunching /\ flow = Ordered

\* MuxState.writeToServer of the next message of client c: lspWriter.write
FifoClientMessage(c, ok) ==
    /\ Len(flow.consumed) < MaxWrites
    /\ LET msg == MessageOf(c, Len(OfClient(flow.consumed, c)) + 1)
           r == write(flow.lspWriter, msg, ok)
       IN flow' = [lspWriter |-> r.writer,
                   stdin |-> flow.stdin \o r.out,
                   consumed |-> Append(flow.consumed, msg),
                   last |-> [op |-> "client", flushed |-> 0]]
    /\ UNCHANGED <<muxVars, framing, launch>>

\* lsp.stdin emits "drain": lspWriter.flush
FifoServerDrain(accepted) ==
    /\ flow.lspWriter.waitingForDrain
    /\ accepted <= Len(flow.lspWriter.queue)
    /\ LET r == flush(flow.lspWriter, accepted)
       IN flow' = [flow EXCEPT !.lspWriter = r.writer,
                               !.stdin = @ \o r.out,
                               !.last = [op |-> "drain", flushed |-> Len(r.out)]]
    /\ UNCHANGED <<muxVars, framing, launch>>

\* Messages of several clients written to the server, with congestion.
NextFifo ==
    \/ \E c \in ClientIdSpace, ok \in BOOLEAN : FifoClientMessage(c, ok)
    \/ \E accepted \in 0..MaxWrites : FifoServerDrain(accepted)

SpecFifo == InitFifo /\ [][NextFifo]_vars

----------------------------------------------------------------------------
(* Properties of the client-origin path, checked under Spec *)

Connected == SeqToSet(clients)
Min(S) == CHOOSE x \in S : \A y \in S : x <= y


\* the ids under which client d has an initialize in the deferred queue
QueuedBy(d) == {queuedInitialize[i].id : i \in {j \in 1..Len(queuedInitialize) :
                                                 queuedInitialize[j].clientId = d}}

\* C1: a client's request travels to the server under a fresh minted id
\* that is recorded against that client and its original id; when the
\* server answers the minted id of a pending client request, the response
\* is written, under the client's original id, to the client that sent
\* the request and is the last message written to it in that step;
\* whatever the step writes besides (to that client or to another) is a
\* reply to an initialize the receiver itself has queued.
C1_IdRoundTrip ==
    [][/\ (dispatched'.op = "client" /\ IsRequest(dispatched'.msg)
           /\ sentToServer' # <<>>) =>
             LET m == sentToServer'[1].id.num
             IN /\ m \notin DOMAIN pendingClientRequests
                /\ m \notin DOMAIN pendingInternalRequests
                /\ DOMAIN pendingClientRequests' = DOMAIN pendingClientRequests \cup {m}
                /\ pendingClientRequests'[m].clientId = dispatched'.client
                /\ pendingClientRequests'[m].originalId = dispatched'.msg.id
       /\ (dispatched'.op = "server" /\ IsResponse(dispatched'.msg)
           /\ dispatched'.msg.id.num \in DOMAIN pendingClientRequests) =>
             LET msg == dispatched'.msg
                 pending == pendingClientRequests[msg.id.num]
                 c == pending.clientId
             IN /\ c \in Connected =>
                     /\ sentToClient'[c] # <<>>
                     /\ sentToClient'[c][Len(sentToClient'[c])]
                           = WithId(msg, pending.originalId)
                     /\ \A i \in 1..(Len(sentToClient'[c]) - 1) :
                           sentToClient'[c][i].id \in QueuedBy(c)
                /\ \A d \in ClientIdSpace \ {c} : \A i \in 1..Len(sentToClient'[d]) :
                      d \in Connected /\ sentToClient'[d][i].id \in QueuedBy(d)
                /\ c \notin Connected => sentToClient'[c] = <<>>
                /\ msg.id.num \notin DOMAIN pendingClientRequests']_vars

\* Clients 1 and 2 both have a request 42 pending, and the server's answer
\* to client 2's request has just been delivered to client 2 alone, under
\* the id 42.
C1_Witness ==
    /\ dispatched.op = "server"
    /\ \E m \in DOMAIN pendingClientRequests :
          pendingClientRequests[m] = pendingRequest(1, Num(42))
    /\ 1 \in Connected /\ 2 \in Connected
    /\ sentToClient[2] = <<[id |-> Num(42), result |-> Val(1)]>>
    /\ sentToClient[1] = <<>>

\* C2: the server is handed at most one initialize, and exactly one once a
\* client's initialize request has been dispatched.
C2_InitializeOnce ==
    [][/\ lspInitializeCount' <= 1
       /\ lspInitializeCount' >= lspInitializeCount
       /\ (dispatched'.op = "client" /\ IsRequest(dispatched'.msg)
           /\ dispatched'.msg.method = "initialize") => lspInitializeCount' = 1]_vars

\* A second client's initialize has just been queued while the first
\* initializer has already disconnected, and the server was handed one
\* initialize.
C2_Witness ==
    /\ dispatched.op = "client" /\ Method(dispatched.msg) = "initialize"
    /\ init.state = "in_progress"
    /\ init.primaryClientId \notin Connected
    /\ queuedInitialize # <<>>
    /\ lspInitializeCount = 1

\* the reply the claims expect for an initialize served from the cache
CachedReply(id, body) ==
    IF Field(body, "error") # Null THEN [id |-> id, error |-> body.error]
    ELSE [id |-> id, result |-> Field(body, "result")]

\* C3: every initialize that is not forwarded is answered with the result
\* (or error) the server gave to the forwarded initialize, under the
\* requester's own id, whether it is served from the cache or from the queue.
C3_CachedInit ==
    [][/\ (dispatched'.op = "client" /\ IsRequest(dispatched'.msg)
           /\ dispatched'.msg.method = "initialize" /\ init.state = "done") =>
             sentToClient'[dispatched'.client]
                = <<CachedReply(dispatched'.msg.id, lspInitializeAnswer)>>
       /\ (dispatched'.op = "server" /\ init.state = "in_progress"
           /\ init'.state = "done") =>
             \A i \in 1..Len(queuedInitialize) :
                 LET q == queuedInitialize[i]
                 IN q.clientId \in Connected =>
                      \E k \in 1..Len(sentToClient'[q.clientId]) :
                         sentToClient'[q.clientId][k]
                            = CachedReply(q.id, lspInitializeAnswer')]_vars

\* C7: the client set is empty and there is no primary, or the primary is
\* a connected client.
C7_PrimaryPointer ==
    \/ clients = <<>> /\ primaryClientId = NoClient
    \/ primaryClientId \in Connected

\* The first client has just closed its socket after an initialize was
\* dispatched, and the second client holds the role.
C7_Witness ==
    /\ dispatched = [op |-> "close", client |-> 1]
    /\ primaryClientId = 2
    /\ init.state # "not_started"

\* C8: once the first initialize has been handled, the primary is the
\* client that sent it.
C8_PrimaryIsFirstInitializer ==
    [][(init.state = "not_started" /\ init'.state = "in_progress") =>
          primaryClientId' = init'.primaryClientId]_vars

\* C9: when the primary's socket closes, the surviving client with the
\* smallest id becomes primary (none if no client survives); when another
\* client's socket closes, the primary stays.
C9_PrimarySuccession ==
    [][dispatched'.op = "close" =>
          LET c == dispatched'.client
              survivors == Connected \ {c}
          IN primaryClientId' =
               IF primaryClientId # c THEN primaryClientId
               ELSE IF survivors = {} THEN NoClient
               ELSE Min(survivors)]_vars

\* The primary (client 1) has just closed its socket while clients 2 and 3
\* stay connected, and client 2 holds the role.
C9_Witness ==
    /\ dispatched = [op |-> "close", client |-> 1]
    /\ clients = <<2, 3>>
    /\ primaryClientId = 2

\* C10: no entry of the client-origin table names a client that is not
\* connected, and no entry of the forwarded-server-request table belongs
\* to a request that was forwarded to a client that is not connected.
C10_NoEntryOfClosedClient ==
    /\ \A m \in DOMAIN pendingClientRequests :
          pendingClientRequests[m].clientId \in Connected
    /\ \A f \in DOMAIN pendingServerRequests : forwardedTo[f] \in Connected

----------------------------------------------------------------------------
(* Properties of the server-origin path, checked under SpecServerOrigin *)

\* C4: a server request with id J that is forwarded to a client travels
\* under a fresh negative id F recorded against J; when a client answers F,
\* the mux writes to the server exactly one message, the client's response
\* with its id replaced by J, and removes the entry of F.
C4_ServerOriginRoundTrip ==
    [][/\ (dispatched'.op = "server" /\ IsRequest(dispatched'.msg)) =>
             \A c \in ClientIdSpace : sentToClient'[c] # <<>> =>
                LET f == sentToClient'[c][1].id.num
                IN /\ f < 0
                   /\ f \notin DOMAIN pendingServerRequests
                   /\ sentToClient'[c] = <<WithId(dispatched'.msg, Num(f))>>
                   /\ DOMAIN pendingServerRequests'
                         = DOMAIN pendingServerRequests \cup {f}
                   /\ pendingServerRequests'[f].serverId = dispatched'.msg.id
       /\ (dispatched'.op = "client" /\ IsResponse(dispatched'.msg)
           /\ IsNumber(dispatched'.msg.id)
           /\ dispatched'.msg.id.num \in DOMAIN pendingServerRequests) =>
             LET msg == dispatched'.msg
             IN /\ sentToServer'
                      = <<WithId(msg, pendingServerRequests[msg.id.num].serverId)>>
                /\ DOMAIN pendingServerRequests'
                      = DOMAIN pendingServerRequests \ {msg.id.num}]_vars

\* Two server requests were forwarded; a client has just answered the
\* second one (server id "a"), the answer went to the server under that
\* id, and the first one is still pending.
C4_Witness ==
    /\ dispatched.op = "client"
    /\ dispatched.msg = [id |-> Num(-2), error |-> Val(2)]
    /\ sentToServer = <<[id |-> Str("a"), error |-> Val(2)]>>
    /\ DOMAIN pendingServerRequests = {-1}

----------------------------------------------------------------------------
(* Properties of the diagnostics bridge, checked under SpecBridge *)

IsPublish(m) == Method(m) = "textDocument/publishDiagnostics"
Publishes(q) == SelectSeq(q, IsPublish)

\* C5: a publishDiagnostics notification is written only by the step that
\* handles the server's answer to a pull of the bridge, and that step
\* writes exactly one to every connected client whose recorded flag is
\* false and none to any other client; the recorded flag of a client is
\* what its latest initialize advertised (false before it initializes).
C5_BridgeGated ==
    [][/\ \A c \in ClientIdSpace :
            Len(Publishes(sentToClient'[c])) =
               IF /\ dispatched'.op = "server"
                  /\ IsResponse(dispatched'.msg)
                  /\ dispatched'.msg.id.num \in DOMAIN pendingInternalRequests
                  /\ c \in Connected
                  /\ ~ clientSupportsPullDiagnostics[c]
               THEN 1 ELSE 0
       /\ \A c \in SeqToSet(clients') :
            clientSupportsPullDiagnostics'[c] =
               IF dispatched'.op = "client" /\ dispatched'.client = c
                  /\ Method(dispatched'.msg) = "initialize"
               THEN Path(dispatched'.msg,
                         <<"params", "capabilities", "textDocument", "diagnostic">>) # Null
               ELSE IF c \in Connected THEN clientSupportsPullDiagnostics[c]
               ELSE FALSE]_vars

\* Client 1 initialized without the capability and client 2 with it; the
\* server has just answered a pull, and the notification was written to
\* client 1 and not to client 2.
C5_Witness ==
    /\ dispatched.op = "server"
    /\ clients = <<1, 2>>
    /\ ~ clientSupportsPullDiagnostics[1] /\ clientSupportsPullDiagnostics[2]
    /\ init.state = "done"
    /\ sentToClient[1] = <<[method |-> "textDocument/publishDiagnostics",
                            params |-> [uri |-> Str("file:///a.ts"),
                                        diagnostics |-> Arr(<<Val(3)>>)]]>>
    /\ sentToClient[2] = <<>>

----------------------------------------------------------------------------
(* Properties of the lifecycle, checked under SpecIdle *)

\* C6: the idle path kills the child only when the client set has stayed
\* empty for the whole idle interval since it last became empty.
C6_IdleShutdown ==
    [][(dispatched'.op = "idleTimeout" /\ ~ lspKilled /\ lspKilled') =>
          (clients = <<>> /\ emptyTicks >= IdleTicks)]_vars

----------------------------------------------------------------------------
(* Further properties of the server-origin path, checked under             *)
(* SpecServerOrigin                                                        *)

\* the methods of server requests the mux answers itself
LocallyAnswered ==
    {"client/registerCapability", "client/unregisterCapability", "workspace/configuration"}

\* C11: a client's response whose id is not a number registered in the
\* forwarded-server-request table (an unknown number, a consumed id, a
\* string) is ignored: nothing is written to the server and no table
\* changes.
C11_StrayClientResponseIgnored ==
    [][(/\ dispatched'.op = "client"
        /\ IsResponse(dispatched'.msg)
        /\ ~ (/\ IsNumber(dispatched'.msg.id)
              /\ dispatched'.msg.id.num \in DOMAIN pendingServerRequests)) =>
          /\ sentToServer' = <<>>
          /\ pendingServerRequests' = pendingServerRequests
          /\ pendingClientRequests' = pendingClientRequests
          /\ pendingInternalRequests' = pendingInternalRequests]_vars

\* an array of n nulls
Nulls(n) == Arr([i \in 1..n |-> Null])

\* C12: client/registerCapability and client/unregisterCapability are
\* answered to the server with result null under the server's id, and
\* workspace/configuration with as many nulls as params.items has elements
\* (none when items is missing or is no array); nothing is written to a
\* client and the forwarded-request table and its counter stay as they are.
C12_LocallyAnswered ==
    [][(/\ dispatched'.op = "server"
        /\ IsRequest(dispatched'.msg)
        /\ dispatched'.msg.method \in LocallyAnswered) =>
          LET msg == dispatched'.msg
              items == Path(msg, <<"params", "items">>)
          IN /\ sentToServer' =
                   <<[id |-> msg.id,
                      result |-> IF msg.method # "workspace/configuration" THEN Null
                                 ELSE IF "arr" \in DOMAIN items THEN Nulls(Len(items.arr))
                                 ELSE Nulls(0)]>>
             /\ \A c \in ClientIdSpace : sentToClient'[c] = <<>>
             /\ pendingServerRequests' = pendingServerRequests
             /\ nextForwardedServerReqId' = nextForwardedServerReqId]_vars

\* workspace/configuration with three items has just been answered with
\* three nulls while two clients are connected and a forwarded request is
\* pending.
C12_Witness ==
    /\ dispatched.op = "server"
    /\ Method(dispatched.msg) = "workspace/configuration"
    /\ sentToServer = <<[id |-> Num(7), result |-> Arr(<<Null, Null, Null>>)]>>
    /\ Len(clients) = 2
    /\ pendingServerRequests # <<>>

\* C13: a server request with another method is answered with error
\* -32601 under the server's id, leaving the forwarded-request table alone,
\* when no client is connected; otherwise it is written to the primary
\* client only, under a fresh negative id recorded against the server's id.
C13_NoPrimaryError ==
    [][(/\ dispatched'.op = "server"
        /\ IsRequest(dispatched'.msg)
        /\ dispatched'.msg.method \notin LocallyAnswered) =>
          LET msg == dispatched'.msg
              f == nextForwardedServerReqId
          IN IF clients = <<>>
             THEN /\ Len(sentToServer') = 1
                  /\ sentToServer'[1].id = msg.id
                  /\ sentToServer'[1].error.code = -32601
                  /\ ~ Has(sentToServer'[1], "result")
                  /\ pendingServerRequests' = pendingServerRequests
                  /\ nextForwardedServerReqId' = nextForwardedServerReqId
                  /\ \A c \in ClientIdSpace : sentToClient'[c] = <<>>
             ELSE /\ sentToServer' = <<>>
                  /\ f < 0 /\ f \notin DOMAIN pendingServerRequests
                  /\ primaryClientId \in Connected
                  /\ \A c \in ClientIdSpace :
                        sentToClient'[c] = IF c = primaryClientId
                                           THEN <<WithId(msg, Num(f))>> ELSE <<>>
                  /\ pendingServerRequests' = MapSet(pendingServerRequests, f,
                                                     [serverId |-> msg.id])]_vars

\* All clients have gone and the server's request "a" has just been
\* refused with the error.
C13_Witness ==
    /\ dispatched.op = "server"
    /\ Method(dispatched.msg) = "custom/ping"
    /\ clients = <<>> /\ nextClientId > 1
    /\ sentToServer = <<[id |-> Str("a"),
                         error |-> [code |-> -32601, message |-> "No clients connected"]]>>

----------------------------------------------------------------------------
(* Properties of the notification path, checked under SpecNotifications *)

\* C14: a client's initialized notification is written to the server if
\* and only if the sender is the primary client when it is dispatched;
\* every other notification of a client is written to the server as it is.
C14_InitializedFromPrimaryOnly ==
    [][(dispatched'.op = "client" /\ IsNotification(dispatched'.msg)) =>
          sentToServer' =
             IF dispatched'.msg.method = "initialized"
                /\ dispatched'.client # primaryClientId
             THEN <<>> ELSE <<dispatched'.msg>>]_vars

\* Client 1 has left and client 2 inherited the role; client 3 has just
\* sent initialized and nothing was written to the server.
C14_Witness ==
    /\ dispatched = [op |-> "client", client |-> 3, msg |-> Initialized]
    /\ clients = <<2, 3>>
    /\ primaryClientId = 2
    /\ sentToServer = <<>>

----------------------------------------------------------------------------
(* Further properties of the client-origin path, checked under Spec *)

\* the replies owed to client c for its queued initializes, in queue order
QueuedReplies(c, body) ==
    LET mine == SelectSeq(queuedInitialize, LAMBDA q : q.clientId = c)
    IN [i \in 1..Len(mine) |-> CachedReply(mine[i].id, body)]

\* C15: an initialize that arrives while init is in progress is appended
\* to the queue, with nothing written to the server or to its sender; the
\* queue changes otherwise only when the server answers the forwarded
\* initialize, and then every queued initializer still connected is
\* written one reply per queued request, with that answer's payload and
\* the request's own id, in queue order, and the queue is empty afterwards.
C15_DeferredInitializers ==
    [][IF /\ dispatched'.op = "client" /\ IsRequest(dispatched'.msg)
          /\ dispatched'.msg.method = "initialize" /\ init.state = "in_progress"
       THEN /\ sentToServer' = <<>>
            /\ sentToClient'[dispatched'.client] = <<>>
            /\ queuedInitialize' = Append(queuedInitialize,
                                          [clientId |-> dispatched'.client,
                                           id |-> dispatched'.msg.id])
       ELSE IF dispatched'.op = "server" /\ IsResponse(dispatched'.msg)
               /\ dispatched'.msg.id = Num(lspInitializeId)
       THEN LET body == [result |-> Field(dispatched'.msg, "result"),
                         error |-> Field(dispatched'.msg, "error")]
            IN /\ queuedInitialize' = <<>>
               /\ \A c \in ClientIdSpace :
                     LET owed == IF c \in Connected THEN QueuedReplies(c, body) ELSE <<>>
                     IN /\ Len(sentToClient'[c]) >= Len(owed)
                        /\ SubSeq(sentToClient'[c], 1, Len(owed)) = owed
       ELSE queuedInitialize' = queuedInitialize]_vars

----------------------------------------------------------------------------
(* Further properties of the lifecycle, checked under SpecIdle *)

\* C16, as claimed: when the child exits, the socket of every client in
\* the client set is destroyed and the exit callback is called with the
\* exit code and the signal of the child's exit event.
C16_ExitWithChildCode ==
    [][dispatched'.op = "lspExit" =>
          /\ Connected \subseteq destroyed'
          /\ exitCalls' = Append(exitCalls, [code |-> dispatched'.code,
                                             signal |-> dispatched'.signal])]_vars

\* C16, amended: when the child exits, the socket of every client in the
\* client set is destroyed and the exit callback is called once, with the
\* signal of the exit event and with its exit code, or with the code 1
\* when the event carries none.
C16_ServerExit ==
    [][dispatched'.op = "lspExit" =>
          /\ Connected \subseteq destroyed'
          /\ clients' = clients
          /\ exitCalls' = Append(exitCalls,
                                 [code |-> IF dispatched'.code = Null THEN Num(1)
                                           ELSE dispatched'.code,
                                  signal |-> dispatched'.signal])]_vars

\* The child was ended by a signal while clients 1 and 2 were connected:
\* both sockets are destroyed and the callback got the code 1 and the signal.
C16_Witness ==
    /\ dispatched = [op |-> "lspExit", code |-> Null, signal |-> Str("SIGTERM")]
    /\ clients = <<1, 2>>
    /\ destroyed = {1, 2}
    /\ exitCalls = <<[code |-> Num(1), signal |-> Str("SIGTERM")]>>

----------------------------------------------------------------------------
(* Properties of stream errors: the server's stream under SpecIdle, the  *)
(* clients' streams under SpecErrors                                     *)

\* C17: a framing error on the server's output shuts the mux down: the
\* child is killed or the exit callback is called, and the socket of
\* every connected client is destroyed.
C17_ServerFramingErrorShutsDown ==
    [][dispatched'.op = "serverFramingError" =>
          /\ lspKilled' \/ Len(exitCalls') > Len(exitCalls)
          /\ Connected \subseteq destroyed']_vars

\* the entries of the client-origin table that do not name client c
EntriesOfOthers(table, c) ==
    [m \in {n \in DOMAIN table : table[n].clientId # c} |-> table[m]]

\* C18: a framing error on a client's stream destroys the socket of that
\* client and of no other; when this socket then closes, the client
\* leaves the client set and the others stay; in both steps the child,
\* the exit callback, the server reader, the init state, the other
\* clients' pending entries and the forwarded-request table are left as
\* they are and nothing is written.
C18_ClientFramingErrorDropsOne ==
    [][(\/ dispatched'.op = "clientFramingError"
        \/ dispatched'.op = "close" /\ dispatched'.client \in destroyed) =>
          LET c == dispatched'.client
          IN /\ IF dispatched'.op = "clientFramingError"
                THEN destroyed' = destroyed \cup {c} /\ clients' = clients
                ELSE destroyed' = destroyed \ {c} /\ clients' = Remove(clients, c)
             /\ lspKilled' = lspKilled /\ lspExited' = lspExited
             /\ exitCalls' = exitCalls
             /\ serverReaderDone' = serverReaderDone
             /\ init' = init
             /\ queuedInitialize' = queuedInitialize
             /\ EntriesOfOthers(pendingClientRequests', c)
                   = EntriesOfOthers(pendingClientRequests, c)
             /\ pendingServerRequests' = pendingServerRequests
             /\ sentToServer' = <<>>
             /\ \A d \in ClientIdSpace : sentToClient'[d] = <<>>]_vars

\* Client 2's stream has just failed while client 1 has an initialize
\* and a request pending: only client 2's socket is destroyed.
C18_Witness ==
    /\ dispatched = [op |-> "clientFramingError", client |-> 2]
    /\ clients = <<1, 2>>
    /\ destroyed = {2}
    /\ init = [state |-> "in_progress", primaryClientId |-> 1]
    /\ \E m \in DOMAIN pendingClientRequests :
          pendingClientRequests[m] = [clientId |-> 1, originalId |-> Num(42)]

----------------------------------------------------------------------------
(* Properties of the framing, checked under SpecFraming *)

\* C19: readMessages fails with an error when a complete header block
\* lacks a well-formed Content-Length, when the declared length is not a
\* non-negative finite integer, and when the stream ends after a header
\* but before the declared number of body bytes has arrived: a stream of
\* one of these kinds never ends without an error.
C19_DecoderErrors ==
    framing.status = "ended" => framing.kind = "valid"

IsPrefix(p, q) == Len(p) <= Len(q) /\ SubSeq(q, 1, Len(p)) = p

\* C20: the concatenated encodeMessage outputs of any sequence of
\* messages, fed to readMessages in chunks cut at arbitrary places, yield
\* exactly the same messages, in the same order, each exactly once: the
\* reader never fails, what it has yielded is always a prefix of what was
\* encoded, and once every byte has been delivered it has yielded all of it.
C20_FramingRoundTrip ==
    framing.kind = "valid" =>
        /\ framing.status # "error"
        /\ IsPrefix(framing.out, framing.sent)
        /\ framing.wire = <<>> => framing.out = framing.sent

C20_Witness ==
    /\ framing.kind = "valid"
    /\ framing.status = "ended"
    /\ Len(framing.sent) = MaxMessages
    /\ framing.out = framing.sent
    /\ Len(framing.buffer) > FrameBufferSize
    /\ Len(framing.buffer) < Len(encodeAll(framing.sent))

----------------------------------------------------------------------------
(* Further properties of the diagnostics bridge, checked under SpecBridge *)

FileEvents == {"textDocument/didOpen", "textDocument/didChange", "textDocument/didSave"}

\* the pull requests for a URI among the messages written to the server
PullRequests(q, u) ==
    SelectSeq(q, LAMBDA m : /\ Method(m) = "textDocument/diagnostic"
                            /\ Path(m, <<"params", "textDocument", "uri">>) = Str(u))

\* MuxState.hasNonPullClients, of the current state
HasNonPullClients == \E c \in Connected : ~ clientSupportsPullDiagnostics[c]

TimersOf(timers, u) == {t \in timers : t.uri = u}

C22_NoRequestWithoutNonPullClient ==
    [][( \/ \E u \in Uris : PullRequests(sentToServer', u) # <<>>
         \/ \E c \in ClientIdSpace : Publishes(sentToClient'[c]) # <<>> )
       => HasNonPullClients /\ HasNonPullClients']_vars

\* A timer was set while a non-pull client was connected; that client has
\* left, a client that pulls by itself remains, and the timer has just
\* fired without a request.
C22_Witness ==
    /\ dispatched = [op |-> "debounce", uri |-> "file:///a.ts"]
    /\ clients # <<>>
    /\ ~ HasNonPullClients
    /\ sentToServer = <<>>
    /\ diagnosticsInFlight = {}

----------------------------------------------------------------------------
(* Properties of the bridge around init-done, checked under SpecPreInit *)

----------------------------------------------------------------------------
(* Properties of the bridge's answers, checked under SpecBridge *)

\* the step has handled the server's answer to a pull of the bridge
BridgeResponseHandled ==
    /\ dispatched'.op = "server"
    /\ IsResponse(dispatched'.msg)
    /\ dispatched'.msg.id.num \in DOMAIN pendingInternalRequests

PublishOf(u, diagnostics) ==
    [method |-> "textDocument/publishDiagnostics",
     params |-> [uri |-> Str(u), diagnostics |-> diagnostics]]

ItemsOr(map, u) == IF u \in DOMAIN map THEN map[u] ELSE Arr(<<>>)

\* C24 as stated: an answer of kind "unchanged" publishes exactly the
\* items last published for its URI (none if nothing was published for
\* it), and an answer of kind "full" publishes its items and makes them
\* the cached items of the URI.
C24_UnchangedReplay ==
    [][BridgeResponseHandled =>
          LET u == pendingInternalRequests[dispatched'.msg.id.num].uri
              result == dispatched'.msg.result
              expected == IF result.kind = Str("unchanged")
                          THEN ItemsOr(publishedDiagnostics, u) ELSE result.items
          IN /\ \A c \in Connected :
                  ~ clientSupportsPullDiagnostics[c] =>
                      sentToClient'[c] = <<PublishOf(u, expected)>>
             /\ result.kind = Str("full") => lastPublishedDiagnostics'[u] = result.items]_vars

\* C24, amended: an answer of kind "unchanged" publishes exactly the
\* items cached for its URI (none if nothing is cached), and an answer of
\* kind "full" publishes its items; either way what was determined
\* becomes the cached items of the URI, published or not.
C24_UnchangedReplaysCache ==
    [][BridgeResponseHandled =>
          LET u == pendingInternalRequests[dispatched'.msg.id.num].uri
              result == dispatched'.msg.result
              expected == IF result.kind = Str("unchanged")
                          THEN ItemsOr(lastPublishedDiagnostics, u) ELSE result.items
          IN /\ \A c \in Connected :
                  ~ clientSupportsPullDiagnostics[c] =>
                      sentToClient'[c] = <<PublishOf(u, expected)>>
             /\ lastPublishedDiagnostics'[u] = expected]_vars

\* The server has just answered a pull for a.ts with "unchanged" and the
\* items cached from an earlier "full" answer were published again.
C24_Witness ==
    /\ dispatched.op = "server"
    /\ dispatched.msg.result = [kind |-> Str("unchanged")]
    /\ clients # <<>>
    /\ sentToClient[Head(clients)] = <<PublishOf("file:///a.ts", Arr(<<Val(3)>>))>>
    /\ ItemsOr(lastPublishedDiagnostics, "file:///a.ts") = Arr(<<Val(3)>>)

----------------------------------------------------------------------------
(* Properties of the tsgo initialize hook, checked under SpecTsgoInit *)

DiagnosticPath == <<"params", "capabilities", "textDocument", "diagnostic">>

\* b is a with the member at the end of the path added: along the path
\* every object of b has the members of the object of a (none where a has
\* no object there) and the next member of the path, with equal values
\* off the path
RECURSIVE AddedAt(_, _, _)
AddedAt(a, b, path) ==
    IF path = <<>> THEN TRUE
    ELSE LET k == Head(path)
             obj == IF a = Null THEN EmptyObject ELSE a
         IN /\ DOMAIN b = DOMAIN obj \cup {k}
            /\ \A f \in DOMAIN obj \ {k} : b[f] = obj[f]
            /\ AddedAt(Field(obj, k), b[k], Tail(path))

\* C25: every initialize written to the tsgo server carries
\* params.capabilities.textDocument.diagnostic; if the client's initialize
\* carried it, what is written is the client's message with the minted
\* id; if not, it is the client's message with the minted id and with
\* that one member added, everything else as the client sent it; the hook
\* applied to what was written changes nothing.
C25_InitializeHasPullCapability ==
    [][\A i \in 1..Len(sentToServer') :
          Method(sentToServer'[i]) = "initialize" =>
             LET forwarded == sentToServer'[i]
                 sent == WithId(dispatched'.msg, Num(nextServerRequestId))
             IN /\ dispatched'.op = "client"
                /\ Path(forwarded, DiagnosticPath) # Null
                /\ IF Path(sent, DiagnosticPath) # Null
                   THEN forwarded = sent
                   ELSE /\ AddedAt(sent, forwarded, DiagnosticPath)
                        /\ Path(forwarded, DiagnosticPath) = [dynamicRegistration |-> FALSE]
                /\ injectPullDiagnostics(forwarded) = forwarded]_vars

\* Client 1's initialize had a rootUri and other capabilities but not the
\* pull capability: the server was written the same message with the
\* capability added.
C25_Witness ==
    /\ dispatched.op = "client"
    /\ Path(dispatched.msg, <<"params", "capabilities", "textDocument", "hover">>) # Null
    /\ Path(dispatched.msg, DiagnosticPath) = Null
    /\ Len(sentToServer) = 1
    /\ sentToServer[1].params =
          [rootUri |-> Str("file:///p"),
           capabilities |-> [workspace |-> EmptyObject,
                             textDocument |-> [hover |-> EmptyObject,
                                               diagnostic |-> [dynamicRegistration |-> FALSE]]]]

----------------------------------------------------------------------------
(* Properties of starting the daemon, checked under SpecLaunch *)

\* C26: however the connect invocations for one pair interleave while no
\* daemon is listening yet, at most one daemon is spawned and at most one
\* server child is started, and all invocations that are connected are
\* connected to the same daemon.
C26_OneDaemonPerPair ==
    /\ Len(launch.daemons) <= 1
    /\ Cardinality({d \in DOMAIN launch.daemons : launch.daemons[d].lsp}) <= 1
    /\ \A i, j \in Connects :
          (launch.connects[i].pc = "connected" /\ launch.connects[j].pc = "connected")
          => launch.connects[i].daemon = launch.connects[j].daemon

----------------------------------------------------------------------------
(* Properties of the bridge's requests in flight, checked under SpecBridge *)

\* the pulls of the bridge for a URI that the server has not answered yet
OutstandingPulls(u) ==
    {id \in DOMAIN pendingInternalRequests : pendingInternalRequests[id].uri = u}

\* C30: between the moment the bridge sends a pull request for a URI and
\* the moment its response is received, the bridge sends no other pull
\* request for that URI: a step writes a pull for a URI only if none is
\* outstanding, and the internal-request table never holds two for one URI.
C30_InFlightExclusion ==
    [][\A u \in Uris :
          /\ PullRequests(sentToServer', u) # <<>> => OutstandingPulls(u) = {}
          /\ Cardinality(OutstandingPulls(u)') <= 1]_vars

----------------------------------------------------------------------------
(* Properties of backpressure, checked under SpecFlow and SpecFlowFair *)

\* the clients whose writer is congested
CongestedClients(f) == {c \in f.clients : f.clientWriters[c].paused}

\* C27: while the server-bound writer is congested, reads are paused on
\* every client socket of the client set, clients accepted in the meantime
\* included, and no message of a client is dispatched.
C27_ClientReadsPausedWhileCongested ==
    flow.lspWriter.paused => flow.clients \subseteq flow.socketPaused

\* C28: after every step the server's output is paused if a client-bound
\* writer is congested, and a step resumes it only if no writer of a
\* connected client is left congested.
C28_ServerReadsPausedWhileAnyCongested ==
    [][/\ CongestedClients(flow') # {} => flow'.stdoutPaused
       /\ flow.stdoutPaused /\ ~ flow'.stdoutPaused => CongestedClients(flow') = {}]_vars

\* one of several congested client writers has drained and the server's
\* output is still paused
C28_Witness ==
    /\ flow.last.op = "drain"
    /\ flow.last.client \in flow.clients \ CongestedClients(flow)
    /\ CongestedClients(flow) # {}
    /\ flow.stdoutPaused

\* reads are paused in some direction
ReadsPaused == flow.clientReadsPaused \/ flow.lspReadsPaused

\* C29 as stated: with every congested stream draining, paused reads of
\* either direction are eventually resumed.
C29_PausedReadsEventuallyResumed ==
    /\ flow.clientReadsPaused ~> ~ flow.clientReadsPaused
    /\ flow.lspReadsPaused ~> ~ flow.lspReadsPaused

\* a step of the mux that dispatches no message
NoDispatch == flow'.last.op \in {"accept", "close", "drain"}

\* the "drain" of a congested writer is awaited
DrainAwaited ==
    \/ flow.lspWriter.waitingForDrain
    \/ \E c \in flow.clients : flow.clientWriters[c].waitingForDrain

\* C29: whenever reads are paused the drain of a congested writer is
\* awaited, and with every congested stream draining the reads of both
\* directions are resumed for good once no more messages are dispatched.
C29_ResumedOnceDispatchStops ==
    /\ [](ReadsPaused => DrainAwaited)
    /\ <>[][NoDispatch]_vars => <>[](~ ReadsPaused)

\* a drain has resumed the reads that were still paused, with two clients
\* connected
C29_Witness ==
    /\ flow.last.op = "drain" /\ flow.last.resumed # {}
    /\ ~ ReadsPaused
    /\ Cardinality(flow.clients) >= 2

----------------------------------------------------------------------------
(* Properties of didClose, checked under SpecDidClose *)

\* the bridge state kept for a URI: its timer handle, its pending timers,
\* its cache entry, its pending-after-init mark and its in-flight mark
BridgeStateOf(debounce, timers, cache, pendingAfterInit, inFlight, u) ==
    [timer |-> IF u \in DOMAIN debounce THEN <<debounce[u]>> ELSE <<>>,
     timers |-> TimersOf(timers, u),
     cached |-> IF u \in DOMAIN cache THEN <<cache[u]>> ELSE <<>>,
     pending |-> u \in pendingAfterInit,
     inFlight |-> u \in inFlight]

\* nothing is kept for a URI
NoBridgeState ==
    [timer |-> <<>>, timers |-> {}, cached |-> <<>>, pending |-> FALSE, inFlight |-> FALSE]

\* every URI the bridge may hold state for
BridgeUris ==
    QueuedUris \cup DOMAIN diagnosticDebounce \cup DOMAIN lastPublishedDiagnostics
    \cup pendingDiagnosticsAfterInit \cup diagnosticsInFlight
    \cup {t.uri : t \in debounceTimers}

\* C31: a didClose for a URI leaves no timer, no cache entry, no
\* pending-after-init mark and no in-flight mark for that URI, and leaves
\* all of these for every other URI, and the initDone flag, as they were.
C31_DidCloseFrame ==
    [][dispatched'.op = "client" /\ Method(dispatched'.msg) = "textDocument/didClose"
       => LET closed == Path(dispatched'.msg, <<"params", "textDocument", "uri">>).str
          IN /\ BridgeStateOf(diagnosticDebounce', debounceTimers', lastPublishedDiagnostics',
                              pendingDiagnosticsAfterInit', diagnosticsInFlight', closed)
                  = NoBridgeState
             /\ \A u \in (BridgeUris \cup BridgeUris') \ {closed} :
                   BridgeStateOf(diagnosticDebounce', debounceTimers', lastPublishedDiagnostics',
                                 pendingDiagnosticsAfterInit', diagnosticsInFlight', u)
                   = BridgeStateOf(diagnosticDebounce, debounceTimers, lastPublishedDiagnostics,
                                   pendingDiagnosticsAfterInit, diagnosticsInFlight, u)
             /\ initDone' = initDone]_vars

\* one document was just closed while the other has a cache entry and a
\* pull in flight or a timer pending
C31_Witness ==
    /\ dispatched.op = "client" /\ Method(dispatched.msg) = "textDocument/didClose"
    /\ \E u \in QueuedUris :
          /\ Str(u) # Path(dispatched.msg, <<"params", "textDocument", "uri">>)
          /\ u \in DOMAIN lastPublishedDiagnostics
          /\ u \in diagnosticsInFlight \/ TimersOf(debounceTimers, u) # {}

----------------------------------------------------------------------------
(* Properties of the id spaces, checked under SpecIds *)

\* the messages a step wrote to the clients, whoever they are
WrittenToClients(sent) == UNION {SeqToSet(sent[c]) : c \in DOMAIN sent}

\* C32: the server's answer to an id of the internal-request table removes
\* the entry, reaches the bridge for the URI recorded in the entry (the
\* URI's in-flight mark is cleared and its cache entry is set), leaves the
\* client-origin table as it was, and nothing with an id is written to a
\* client: all that is written is the publishDiagnostics of that URI.
C32_BridgeResponsesStayInternal ==
    [][BridgeResponseHandled =>
          LET id == dispatched'.msg.id.num
              u == pendingInternalRequests[id].uri
          IN /\ id \notin DOMAIN pendingInternalRequests'
             /\ u \notin diagnosticsInFlight'
             /\ u \in DOMAIN lastPublishedDiagnostics'
             /\ pendingClientRequests' = pendingClientRequests
             /\ \A m \in WrittenToClients(sentToClient') :
                   /\ ~ Has(m, "id")
                   /\ m = PublishOf(u, lastPublishedDiagnostics'[u])]_vars

\* the server has just answered a pull while a request of a client is
\* pending, and the diagnostics were published to a client
C32_Witness ==
    /\ dispatched.op = "server"
    /\ IsResponse(dispatched.msg)
    /\ dispatched.msg.result \in DiagnosticReports
    /\ pendingClientRequests # <<>>
    /\ \E m \in WrittenToClients(sentToClient) : Method(m) = "textDocument/publishDiagnostics"

\* the ids a step has put into the tables of server-bound requests
MintedForServer ==
    (DOMAIN pendingClientRequests' \cup DOMAIN pendingInternalRequests')
    \ (DOMAIN pendingClientRequests \cup DOMAIN pendingInternalRequests)

\* the ids a step has put into the table of forwarded server requests
MintedForClients == DOMAIN pendingServerRequests' \ DOMAIN pendingServerRequests

\* C33: the ids a step mints for server-bound requests are positive, lie
\* at or above the counter's value before the step and below its value
\* after it, one per increment, and the counter never goes back, so none
\* was minted before; the ids minted for forwarded server requests are
\* negative and descend in the same way from their own counter; after
\* every step the client-origin table and the internal table share no key
\* and every key lies on the used side of its counter.
C33_IdentifierSpaces ==
    [][/\ nextServerRequestId' >= nextServerRequestId
       /\ nextForwardedServerReqId' <= nextForwardedServerReqId
       /\ \A k \in MintedForServer :
             k > 0 /\ nextServerRequestId <= k /\ k < nextServerRequestId'
       /\ Cardinality(MintedForServer) = nextServerRequestId' - nextServerRequestId
       /\ \A k \in MintedForClients :
             k < 0 /\ nextForwardedServerReqId >= k /\ k > nextForwardedServerReqId'
       /\ Cardinality(MintedForClients) = nextForwardedServerReqId - nextForwardedServerReqId'
       /\ DOMAIN pendingClientRequests' \cap DOMAIN pendingInternalRequests' = {}
       /\ \A k \in DOMAIN pendingClientRequests' \cup DOMAIN pendingInternalRequests' :
             k < nextServerRequestId'
       /\ \A k \in DOMAIN pendingServerRequests' : k > nextForwardedServerReqId']_vars

\* a request of a client, a pull of the bridge and a forwarded request of
\* the server are pending at once
C33_Witness ==
    /\ pendingClientRequests # <<>>
    /\ pendingInternalRequests # <<>>
    /\ pendingServerRequests # <<>>

----------------------------------------------------------------------------
(* Properties of the order of writes, checked under SpecFifo *)

\* C34: what the server's input was handed, followed by what the writer
\* still holds in its queue, is the sequence of messages in the order the
\* mux dispatched them; so for every client, its messages handed to the
\* server's input are the first of its dispatched messages, in order.
C34_ServerInputFifo ==
    /\ flow.stdin \o flow.lspWriter.queue = flow.consumed
    /\ \A c \in ClientIdSpace :
          IsPrefix(OfClient(flow.stdin, c), OfClient(flow.consumed, c))

\* a drain has just handed two queued buffers to the server's input,
\* which holds messages of two clients, two of them of one client
C34_Witness ==
    /\ flow.last.op = "drain" /\ flow.last.flushed >= 2
    /\ \E c, d \in ClientIdSpace :
          /\ c # d
          /\ Len(OfClient(flow.stdin, c)) >= 2
          /\ Len(OfClient(flow.stdin, d)) >= 1

----------------------------------------------------------------------------
(* Properties of the server's notifications, checked under SpecBroadcast *)

\* C35: a notification of the server is written, as it was received, once
\* to every client that is in the client set when it is dispatched and to
\* nobody else; nothing is written to the server, and the client set and
\* the three pending tables stay as they were.
C35_NotificationsBroadcast ==
    [][dispatched'.op = "server" /\ IsNotification(dispatched'.msg) =>
          /\ \A c \in DOMAIN sentToClient' :
                sentToClient'[c] = IF c \in SeqToSet(clients)
                                   THEN <<dispatched'.msg>> ELSE <<>>
          /\ sentToServer' = <<>>
          /\ clients' = clients
          /\ pendingClientRequests' = pendingClientRequests
          /\ pendingInternalRequests' = pendingInternalRequests
          /\ pendingServerRequests' = pendingServerRequests]_vars

\* a notification was just written to two clients while a request of a
\* client and a forwarded request of the server are pending
C35_Witness ==
    /\ dispatched.op = "server" /\ IsNotification(dispatched.msg)
    /\ Len(clients) >= 2
    /\ \A i \in 1..Len(clients) : sentToClient[clients[i]] = <<dispatched.msg>>
    /\ pendingClientRequests # <<>>
    /\ pendingServerRequests # <<>>

----------------------------------------------------------------------------
(* Properties of the exit callback, checked under SpecIdle *)

\* C36: opts.onExit is called at most once in the lifetime of a mux,
\* whatever the order of idle timers and the child's exit.
C36_ExitCallbackAtMostOnce == Len(exitCalls) <= 1

----------------------------------------------------------------------------
(* Properties of an initialization whose initializer has left, checked     *)
(* under Spec                                                              *)

\* the server answers the forwarded initialize after the client that sent
\* it has disconnected
DepartedInitializerAnswered ==
    /\ dispatched'.op = "server"
    /\ IsResponse(dispatched'.msg)
    /\ dispatched'.msg.id = Num(lspInitializeId)
    /\ dispatched'.msg.id.num \in DOMAIN pendingClientRequests
    /\ pendingClientRequests[dispatched'.msg.id.num].clientId \notin Connected

\* C37: when the server answers the forwarded initialize after its sender
\* has disconnected, init becomes done with that answer cached, every
\* queued initializer still connected is written its replies with that
\* answer's payload, the queue is empty and a bridge is told that init is
\* done; an initialize that arrives when init is done is answered from
\* the cache and nothing is written to the server.
C37_DepartedInitializer ==
    [][/\ DepartedInitializerAnswered =>
             LET body == [result |-> Field(dispatched'.msg, "result"),
                          error |-> Field(dispatched'.msg, "error")]
             IN /\ init' = [state |-> "done", response |-> body]
                /\ \A c \in Connected : sentToClient'[c] = QueuedReplies(c, body)
                /\ queuedInitialize' = <<>>
                /\ serverSpec = "tsgo" => initDone'
       /\ (dispatched'.op = "client" /\ Method(dispatched'.msg) = "initialize"
           /\ IsRequest(dispatched'.msg) /\ init.state = "done") =>
             /\ sentToServer' = <<>>
             /\ sentToClient'[dispatched'.client]
                   = <<CachedReply(dispatched'.msg.id, init.response)>>]_vars

----------------------------------------------------------------------------
(* Properties of the bridge's progress, checked under SpecEventsFair *)

\* a file event for a URI was just dispatched, after init-done and with a
\* non-pull client connected
FileEventDispatched(u) ==
    /\ dispatched.op = "client"
    /\ Method(dispatched.msg) \in FileEvents
    /\ Path(dispatched.msg, <<"params", "textDocument", "uri">>) = Str(u)
    /\ initDone
    /\ HasNonPullClients

\* what ends the bridge's duty for a URI: no non-pull client is left, the
\* document was closed, or the model's supply of ids is used up
DutyEnded(u) ==
    \/ ~ HasNonPullClients
    \/ dispatched.op = "client" /\ dispatched.msg = DidClose(u)
    \/ nextServerRequestId > MaxRequests + 1

\* C38: with every timer expiring and every request answered, a file
\* event for a URI is followed by a step that sends a pull request for
\* the URI, unless the non-pull clients leave or the document is closed.
C38_NoFileEventLost ==
    \A u \in Uris :
        FileEventDispatched(u) ~> (PullRequests(sentToServer, u) # <<>> \/ DutyEnded(u))

----------------------------------------------------------------------------
(* Properties of the forwarded server requests' answers, checked under
   SpecServerOrigin *)

\* the step dispatched to onClientMessage a response that carries the
\* forwarded id f of a pending forwarded server request
AnswersForwarded(f) ==
    /\ dispatched'.op = "client"
    /\ ~ Has(dispatched'.msg, "method")
    /\ Field(dispatched'.msg, "id") = Num(f)
    /\ f \in DOMAIN pendingServerRequests

\* the step consumed the entry of f and wrote the response to the server
\* under the server's original id
CompletesForwarded(f) ==
    /\ f \notin DOMAIN pendingServerRequests'
    /\ sentToServer' = <<WithId(dispatched'.msg, pendingServerRequests[f].serverId)>>

\* C39: a response carrying a forwarded id completes the forwarded server
\* request only if it comes from the client the request was forwarded to.
C39_OnlyForwardedClientCompletes ==
    [][\A f \in DOMAIN pendingServerRequests :
          AnswersForwarded(f) /\ CompletesForwarded(f)
              => dispatched'.client = forwardedTo[f]]_vars

----------------------------------------------------------------------------
(* Properties of the backpressure bookkeeping, checked under SpecFlow *)

\* C40: in every reachable state lspReadsPaused is true exactly when
\* backpressuredClients is not empty, and backpressuredClients holds only
\* ids of connected clients.
C40_BackpressureBookkeeping ==
    /\ flow.lspReadsPaused <=> flow.backpressuredClients # {}
    /\ flow.backpressuredClients \subseteq flow.clients

\* the only congested client has just disconnected, which resumed the
\* server's output while other clients stay connected
C40_Witness ==
    /\ flow.last.op = "close"
    /\ "server" \in flow.last.resumed
    /\ flow.clients # {}
    /\ flow.backpressuredClients = {}
    /\ ~ flow.lspReadsPaused

====
